---- MODULE Spec2Model ----
(***************************************************************************)
(* The wicdpico sensor node: the telemetry session (MQTTModule) with its   *)
(* connection state, reconnect timer and publish schedule, driven by the   *)
(* cooperative loop and by the control routes (Spec, TickSpec, TestSpec),  *)
(* ended by its shutdown (ShutdownSpec), and retrying against an           *)
(* unreachable broker (RetrySpec); the sensor                              *)
(* readings it publishes (SensorSpec); the layered configuration           *)
(* (ConfigSpec); the module registry and loop of the supervisor            *)
(* (SupervisorSpec); and the bring-up of the program (BootSpec).           *)
(*                                                                         *)
(* The MQTT client library is an external collaborator.  Every call into   *)
(* it (connect, disconnect, publish, loop) either returns or raises; the   *)
(* outcome is an input of the action that makes the call.  The library     *)
(* runs the on_connect callback inside a connect() that returns, and the   *)
(* on_disconnect callback inside a disconnect() that returns; loop() may   *)
(* also deliver a disconnect callback or an inbound message.               *)
(*                                                                         *)
(* time.monotonic() is modelled in whole seconds, and a handler runs       *)
(* within one clock value.                                                 *)
(***************************************************************************)
EXTENDS Integers, Sequences, FiniteSets, TLC

VARIABLES
    mqtt,           \* the fields of the MQTTModule object
    now,            \* time.monotonic()
    op,             \* the operation that ran last
    ret,            \* what it returned: [ok, msg]
    calls,          \* the transport calls it issued, in order, with their outcomes
    auto,           \* tick times of the last two automatic publishes, oldest first
    attempt,        \* times of the last two automatic reconnect attempts, oldest first
    pc,             \* position of the test program of code.py
    start_time,     \* code.py: start_time
    start_age,      \* clock minus last_publish when start_time was taken
    publish_count,  \* code.py: publish_count
    sht45,          \* the SensorProvider as get_sensor_data() finds it
    sensor_data,    \* what get_sensor_data() returned last, and where it came from
    payloads,       \* the payload text of each element of calls
    settings,       \* settings.toml as os.getenv() sees it
    config_py,      \* the fallback script config.py
    config,         \* foundation.config, with config_failed
    broker,         \* the fields set by _load_mqtt_config
    server,         \* foundation.server
    modules,        \* foundation.modules, in registration order
    routes,         \* names of the modules whose routes the listener holds
    pending,        \* requests waiting on the listener
    trace           \* what the current loop iteration has done so far

sensorVars == <<sht45, sensor_data, payloads>>
configVars == <<settings, config_py, config, broker>>
supervisorVars == <<server, modules, routes, pending, trace>>

vars == <<mqtt, now, op, ret, calls, auto, attempt,
          pc, start_time, start_age, publish_count,
          sensorVars, configVars, supervisorVars>>

----------------------------------------------------------------------------
(* Bounds *)

MaxTime == 70           \* the clock stops advancing here
TimeStep == 16          \* resolution of the clock between two operations
MaxBoot == 8            \* latest clock value at which the test program starts
JitterSteps == 4        \* random.random() takes the values k / JitterSteps
MaxPending == 2         \* most requests waiting on the listener at one time
MaxSleep == 3           \* longest time between two ticks of the retry loop

(* Program constants *)

ReconnectInterval == 30         \* update(): current_time - _last_reconnect_attempt > 30
PublishIntervals == {5, 32}     \* values of MQTT_PUBLISH_INTERVAL
DisconnectCodes == {0, 1}       \* rc handed to _on_disconnect

(* The timed test run: publish interval 5 s, 12 s of ticks one second apart *)

Scenario == [interval |-> 5, window |-> 12]

None == "None"
NoAttr == -1            \* hasattr(self, '_last_reconnect_attempt') is False

ConnectErr == "broker unreachable"
PublishErr == "publish error"
DisconnectErr == "disconnect error"
LoopErr == "loop error"
SetupErr == "setup error"

----------------------------------------------------------------------------
(* Execution context of one handler: the object, the transport calls made  *)
(* so far and the return value.                                            *)

Ctx(m) == [self |-> m, calls |-> <<>>, ret |-> [ok |-> TRUE, msg |-> None]]

Return(c, ok, msg) == [c EXCEPT !.ret = [ok |-> ok, msg |-> msg]]

TransportCall(c, name, topic, payload, ok) ==
    [c EXCEPT !.calls = Append(@, [call |-> name, topic |-> topic,
                                   payload |-> payload, ok |-> ok])]

(* self.mqtt_client.publish(topic, payload) *)
publish(c, topic, payload, ok) == TransportCall(c, "publish", topic, payload, ok)

(* self.mqtt_client.loop(): the record keeps the callback it delivered, if *)
(* it was a disconnect                                                     *)
loop(c, lo) ==
    TransportCall(c, "loop", "", IF lo = "on_disconnect" THEN lo ELSE "", lo # "raise")

(* MQTTModule.__init__ with _setup_mqtt_client succeeding or failing *)
NewModule(clientOK, interval) ==
    [mqtt_client |-> clientOK,
     connected |-> FALSE,
     last_publish |-> 0,
     last_reconnect_attempt |-> NoAttr,
     publish_interval |-> interval,
     status_message |-> IF clientOK THEN "MQTT client configured"
                        ELSE "MQTT setup failed: " \o SetupErr,
     last_error |-> IF clientOK THEN None ELSE "MQTT setup failed: " \o SetupErr]

(* _on_connect that marks the session connected but publishes no status *)
on_connect_no_status(c, onlineOK) ==
    [c EXCEPT !.self.connected = TRUE,
              !.self.status_message = "Connected to broker",
              !.self.last_error = None]

(* _on_connect: the online publish may raise; the exception is only logged *)
on_connect(c, onlineOK) ==
    LET c1 == [c EXCEPT !.self.connected = TRUE,
                        !.self.status_message = "Connected to broker",
                        !.self.last_error = None]
    IN publish(c1, "status", "online", onlineOK)

(* _on_disconnect that also drops the reconnect timer *)
on_disconnect_rearms(c, rc) ==
    [c EXCEPT !.self.connected = FALSE,
              !.self.status_message = "Disconnected (code: " \o ToString(rc) \o ")",
              !.self.last_reconnect_attempt = NoAttr]

(* _on_disconnect *)
on_disconnect(c, rc) ==
    [c EXCEPT !.self.connected = FALSE,
              !.self.status_message = "Disconnected (code: " \o ToString(rc) \o ")"]

(* connect_mqtt without the early return on a connected session *)
connect_mqtt_reconnects(c, co, onlineOK) ==
    IF ~c.self.mqtt_client THEN Return(c, FALSE, "MQTT client not initialized")
    ELSE LET c1 == [c EXCEPT !.self.status_message = "Connecting..."]
             c2 == TransportCall(c1, "connect", "", "", co = "ack")
         IN IF co = "ack"
            THEN Return(on_connect(c2, onlineOK), TRUE, "Connection initiated")
            ELSE Return([c2 EXCEPT !.self.last_error = "Connection failed: " \o ConnectErr,
                                   !.self.status_message = "Connection failed: " \o ConnectErr],
                        FALSE, ConnectErr)

(* connect_mqtt whose except branch does not record the failure *)
connect_mqtt_forgets_error(c, co, onlineOK) ==
    IF c.self.connected THEN Return(c, TRUE, "Already connected")
    ELSE IF ~c.self.mqtt_client THEN Return(c, FALSE, "MQTT client not initialized")
    ELSE LET c1 == [c EXCEPT !.self.status_message = "Connecting..."]
             c2 == TransportCall(c1, "connect", "", "", co = "ack")
         IN IF co = "ack"
            THEN Return(on_connect(c2, onlineOK), TRUE, "Connection initiated")
            ELSE Return(c2, FALSE, ConnectErr)

(* connect_mqtt over a transport whose connect() returns before the        *)
(* acknowledgment has run _on_connect                                      *)
connect_mqtt_unacked(c, co, onlineOK) ==
    IF c.self.connected THEN Return(c, TRUE, "Already connected")
    ELSE IF ~c.self.mqtt_client THEN Return(c, FALSE, "MQTT client not initialized")
    ELSE LET c1 == [c EXCEPT !.self.status_message = "Connecting..."]
             c2 == TransportCall(c1, "connect", "", "", co = "ack")
         IN IF co = "ack"
            THEN Return(c2, TRUE, "Connection initiated")
            ELSE Return([c2 EXCEPT !.self.last_error = "Connection failed: " \o ConnectErr,
                                   !.self.status_message = "Connection failed: " \o ConnectErr],
                        FALSE, ConnectErr)

(* connect_mqtt whose failure drops the reconnect timer *)
connect_mqtt_rearms(c, co, onlineOK) ==
    IF c.self.connected THEN Return(c, TRUE, "Already connected")
    ELSE IF ~c.self.mqtt_client THEN Return(c, FALSE, "MQTT client not initialized")
    ELSE LET c1 == [c EXCEPT !.self.status_message = "Connecting..."]
             c2 == TransportCall(c1, "connect", "", "", co = "ack")
         IN IF co = "ack"
            THEN Return(on_connect(c2, onlineOK), TRUE, "Connection initiated")
            ELSE Return([c2 EXCEPT !.self.last_error = "Connection failed: " \o ConnectErr,
                                   !.self.status_message = "Connection failed: " \o ConnectErr,
                                   !.self.last_reconnect_attempt = NoAttr],
                        FALSE, ConnectErr)

(* connect_mqtt; co is the outcome of mqtt_client.connect() *)
connect_mqtt(c, co, onlineOK) ==
    IF c.self.connected THEN Return(c, TRUE, "Already connected")
    ELSE IF ~c.self.mqtt_client THEN Return(c, FALSE, "MQTT client not initialized")
    ELSE LET c1 == [c EXCEPT !.self.status_message = "Connecting..."]
             c2 == TransportCall(c1, "connect", "", "", co = "ack")
         IN IF co = "ack"
            THEN Return(on_connect(c2, onlineOK), TRUE, "Connection initiated")
            ELSE Return([c2 EXCEPT !.self.last_error = "Connection failed: " \o ConnectErr,
                                   !.self.status_message = "Connection failed: " \o ConnectErr],
                        FALSE, ConnectErr)

(* disconnect_mqtt without the early return on a disconnected session *)
disconnect_mqtt_always(c, offlineOK, discOK) ==
    LET c1 == publish(c, "status", "offline", offlineOK)
    IN IF ~offlineOK
       THEN Return([c1 EXCEPT !.self.last_error = "Disconnect failed: " \o PublishErr],
                   FALSE, PublishErr)
       ELSE LET c2 == TransportCall(c1, "disconnect", "", "", discOK)
            IN IF discOK
               THEN Return(on_disconnect(c2, 0), TRUE, "Disconnected")
               ELSE Return([c2 EXCEPT !.self.last_error =
                                          "Disconnect failed: " \o DisconnectErr],
                           FALSE, DisconnectErr)

(* disconnect_mqtt that remembers the request by giving the client up *)
disconnect_mqtt_sticky(c, offlineOK, discOK) ==
    IF ~c.self.connected THEN Return(c, TRUE, "Not connected")
    ELSE LET c1 == publish(c, "status", "offline", offlineOK)
         IN IF ~offlineOK
            THEN Return([c1 EXCEPT !.self.last_error = "Disconnect failed: " \o PublishErr],
                        FALSE, PublishErr)
            ELSE LET c2 == TransportCall(c1, "disconnect", "", "", discOK)
                 IN IF discOK
                    THEN Return([on_disconnect(c2, 0) EXCEPT !.self.mqtt_client = FALSE],
                                TRUE, "Disconnected")
                    ELSE Return([c2 EXCEPT !.self.last_error =
                                               "Disconnect failed: " \o DisconnectErr],
                                FALSE, DisconnectErr)

(* disconnect_mqtt; offlineOK and discOK are the outcomes of the offline   *)
(* publish and of mqtt_client.disconnect()                                 *)
disconnect_mqtt(c, offlineOK, discOK) ==
    IF ~c.self.connected THEN Return(c, TRUE, "Not connected")
    ELSE LET c1 == publish(c, "status", "offline", offlineOK)
         IN IF ~offlineOK
            THEN Return([c1 EXCEPT !.self.last_error = "Disconnect failed: " \o PublishErr],
                        FALSE, PublishErr)
            ELSE LET c2 == TransportCall(c1, "disconnect", "", "", discOK)
                 IN IF discOK
                    THEN Return(on_disconnect(c2, 0), TRUE, "Disconnected")
                    ELSE Return([c2 EXCEPT !.self.last_error =
                                               "Disconnect failed: " \o DisconnectErr],
                                FALSE, DisconnectErr)

(* cleanup; the offline publish and mqtt_client.disconnect() share one try; *)
(* its except branch only logs                                             *)
cleanup(c, offlineOK, discOK) ==
    IF c.self.connected /\ c.self.mqtt_client
    THEN LET c1 == publish(c, "status", "offline", offlineOK)
         IN IF ~offlineOK THEN Return(c1, TRUE, None)
            ELSE LET c2 == TransportCall(c1, "disconnect", "", "", discOK)
                 IN IF discOK
                    THEN Return([on_disconnect(c2, 0) EXCEPT !.self.connected = FALSE],
                                TRUE, None)
                    ELSE Return(c2, TRUE, None)
    ELSE Return(c, TRUE, None)

(* The four writes of publish_sensor_data, in order *)
SensorTopics == <<"temperature", "humidity", "battery", "status">>
SensorPayload(i) == IF i = 4 THEN "json" ELSE "decimal"

RECURSIVE PublishTopics(_, _, _)
PublishTopics(c, i, nOK) ==
    IF i > Len(SensorTopics) \/ i > nOK + 1 THEN c
    ELSE PublishTopics(publish(c, SensorTopics[i], SensorPayload(i), i <= nOK), i + 1, nOK)

(* publish_sensor_data without the connection check *)
publish_sensor_data_unguarded(c, nOK, t) ==
    LET c1 == PublishTopics(c, 1, nOK)
    IN IF nOK >= Len(SensorTopics)
       THEN Return([c1 EXCEPT !.self.status_message = "Published",
                              !.self.last_publish = t], TRUE, "")
       ELSE Return([c1 EXCEPT !.self.last_error = "Publish failed: " \o PublishErr],
                   FALSE, "")

(* publish_sensor_data that gives the connection up when a write fails *)
publish_sensor_data_drops(c, nOK, t) ==
    IF ~c.self.connected \/ ~c.self.mqtt_client
    THEN Return([c EXCEPT !.self.last_error = "Not connected to MQTT broker"], FALSE, "")
    ELSE LET c1 == PublishTopics(c, 1, nOK)
         IN IF nOK >= Len(SensorTopics)
            THEN Return([c1 EXCEPT !.self.status_message = "Published",
                                   !.self.last_publish = t], TRUE, "")
            ELSE Return([c1 EXCEPT !.self.last_error = "Publish failed: " \o PublishErr,
                                   !.self.connected = FALSE],
                        FALSE, "")

(* publish_sensor_data that stamps last_publish when a write fails too *)
publish_sensor_data_resets(c, nOK, t) ==
    IF ~c.self.connected \/ ~c.self.mqtt_client
    THEN Return([c EXCEPT !.self.last_error = "Not connected to MQTT broker"], FALSE, "")
    ELSE LET c1 == PublishTopics(c, 1, nOK)
         IN IF nOK >= Len(SensorTopics)
            THEN Return([c1 EXCEPT !.self.status_message = "Published",
                                   !.self.last_publish = t], TRUE, "")
            ELSE Return([c1 EXCEPT !.self.last_error = "Publish failed: " \o PublishErr,
                                   !.self.last_publish = t],
                        FALSE, "")

(* publish_sensor_data that goes on to the remaining topics after a write *)
(* has failed                                                              *)
publish_sensor_data_goes_on(c, nOK, t) ==
    IF ~c.self.connected \/ ~c.self.mqtt_client
    THEN Return([c EXCEPT !.self.last_error = "Not connected to MQTT broker"], FALSE, "")
    ELSE LET c1 == [c EXCEPT !.calls = @ \o
                        [i \in 1..Len(SensorTopics) |->
                            [call |-> "publish", topic |-> SensorTopics[i],
                             payload |-> SensorPayload(i), ok |-> i # nOK + 1]]]
         IN IF nOK >= Len(SensorTopics)
            THEN Return([c1 EXCEPT !.self.status_message = "Published",
                                   !.self.last_publish = t], TRUE, "")
            ELSE Return([c1 EXCEPT !.self.last_error = "Publish failed: " \o PublishErr],
                        FALSE, "")

(* publish_sensor_data; the first nOK writes succeed, the next one raises; *)
(* t is the value of time.monotonic() read after the writes                *)
publish_sensor_data(c, nOK, t) ==
    IF ~c.self.connected \/ ~c.self.mqtt_client
    THEN Return([c EXCEPT !.self.last_error = "Not connected to MQTT broker"], FALSE, "")
    ELSE LET c1 == PublishTopics(c, 1, nOK)
         IN IF nOK >= Len(SensorTopics)
            THEN Return([c1 EXCEPT !.self.status_message = "Published",
                                   !.self.last_publish = t], TRUE, "")
            ELSE Return([c1 EXCEPT !.self.last_error = "Publish failed: " \o PublishErr],
                        FALSE, "")

(* mqtt_client.loop() inside update(): it returns, raises, or runs a       *)
(* callback (a disconnect with code rc, or an inbound message, only logged) *)
LoopOutcomes == {"ok", "raise", "on_disconnect", "on_message"}
ConnectOutcomes == {"ack", "raise"}

(* the drain step whose except branch leaves the session as it was *)
mqtt_loop_keeps_state(c, lo, rc) ==
    IF ~c.self.mqtt_client THEN c
    ELSE LET c1 == loop(c, lo)
         IN IF lo = "raise"
            THEN c1
            ELSE IF lo = "on_disconnect" THEN on_disconnect(c1, rc)
            ELSE c1

(* the drain step that restarts the reconnect timer when the connection   *)
(* is lost                                                                 *)
mqtt_loop_restarts_timer(c, lo, rc) ==
    IF ~c.self.mqtt_client THEN c
    ELSE LET c1 == loop(c, lo)
         IN IF lo = "raise"
            THEN IF c1.self.connected
                 THEN [c1 EXCEPT !.self.connected = FALSE,
                                 !.self.last_error = "Connection lost: " \o LoopErr,
                                 !.self.last_reconnect_attempt = NoAttr]
                 ELSE c1
            ELSE IF lo = "on_disconnect"
                 THEN [on_disconnect(c1, rc) EXCEPT !.self.last_reconnect_attempt = NoAttr]
            ELSE c1

(* update(), lines 653-660: the drain step *)
mqtt_loop(c, lo, rc) ==
    IF ~c.self.mqtt_client THEN c
    ELSE LET c1 == loop(c, lo)
         IN IF lo = "raise"
            THEN IF c1.self.connected
                 THEN [c1 EXCEPT !.self.connected = FALSE,
                                 !.self.last_error = "Connection lost: " \o LoopErr]
                 ELSE c1
            ELSE IF lo = "on_disconnect" THEN on_disconnect(c1, rc)
            ELSE c1

(* _attempt_reconnect that stamps the attempt only when it succeeded *)
attempt_reconnect_stamps_success(c, t, co, onlineOK) ==
    LET c2 == connect_mqtt(c, co, onlineOK)
    IN IF ~c2.ret.ok
       THEN [c2 EXCEPT !.self.status_message = "Reconnect failed: " \o c2.ret.msg]
       ELSE [c2 EXCEPT !.self.last_reconnect_attempt = t]

(* _attempt_reconnect; t is the value of time.monotonic() it reads *)
attempt_reconnect(c, t, co, onlineOK) ==
    LET c1 == [c EXCEPT !.self.last_reconnect_attempt = t]
        c2 == connect_mqtt(c1, co, onlineOK)
    IN IF ~c2.ret.ok
       THEN [c2 EXCEPT !.self.status_message = "Reconnect failed: " \o c2.ret.msg]
       ELSE c2

(* update(): the session is disconnected and the reconnect timer exists *)
ReconnectArmed(m) == ~m.connected /\ m.mqtt_client /\ m.last_reconnect_attempt # NoAttr

(* the reconnect test without the interval *)
ReconnectDue_no_wait(m, current_time) ==
    ReconnectArmed(m) /\ current_time - m.last_reconnect_attempt >= 0

(* update(): current_time - self._last_reconnect_attempt > 30 *)
ReconnectDue(m, current_time) ==
    ReconnectArmed(m) /\ current_time - m.last_reconnect_attempt > ReconnectInterval

(* the publish test with a strict comparison *)
PublishDue_strict(m, current_time) ==
    m.connected /\ current_time - m.last_publish > m.publish_interval

(* update(): self.connected and current_time - self.last_publish >= self.publish_interval *)
PublishDue(m, current_time) ==
    m.connected /\ current_time - m.last_publish >= m.publish_interval

(* the reconnect step with an attempt limit: after a failed reconnect it   *)
(* only restarts the timer                                                 *)
reconnect_step_gives_up(c, current_time, t, co, onlineOK) ==
    IF ~c.self.connected /\ c.self.mqtt_client
    THEN IF c.self.last_reconnect_attempt # NoAttr
         THEN IF ReconnectDue(c.self, current_time)
              THEN IF c.self.status_message = "Reconnect failed: " \o ConnectErr
                   THEN [c EXCEPT !.self.last_reconnect_attempt = t]
                   ELSE attempt_reconnect(c, t, co, onlineOK)
              ELSE c
         ELSE [c EXCEPT !.self.last_reconnect_attempt = current_time]
    ELSE c

(* the reconnect step that attempts at once when there is no timer yet *)
reconnect_step_eager(c, current_time, t, co, onlineOK) ==
    IF ~c.self.connected /\ c.self.mqtt_client
    THEN IF c.self.last_reconnect_attempt # NoAttr
         THEN IF ReconnectDue(c.self, current_time)
              THEN attempt_reconnect(c, t, co, onlineOK)
              ELSE c
         ELSE attempt_reconnect(c, t, co, onlineOK)
    ELSE c

(* the reconnect step without the test for the client *)
reconnect_step_any_session(c, current_time, t, co, onlineOK) ==
    IF ~c.self.connected
    THEN IF c.self.last_reconnect_attempt # NoAttr
         THEN IF current_time - c.self.last_reconnect_attempt > ReconnectInterval
              THEN attempt_reconnect(c, t, co, onlineOK)
              ELSE c
         ELSE [c EXCEPT !.self.last_reconnect_attempt = current_time]
    ELSE c

(* update(), auto-reconnect logic *)
reconnect_step(c, current_time, t, co, onlineOK) ==
    IF ~c.self.connected /\ c.self.mqtt_client
    THEN IF c.self.last_reconnect_attempt # NoAttr
         THEN IF ReconnectDue(c.self, current_time)
              THEN attempt_reconnect(c, t, co, onlineOK)
              ELSE c
         ELSE [c EXCEPT !.self.last_reconnect_attempt = current_time]
    ELSE c

(* update(), automatic publishing *)
publish_step(c, current_time, t, nOK) ==
    IF PublishDue(c.self, current_time) THEN publish_sensor_data(c, nOK, t) ELSE c

(* update() without the try around loop(): its exception leaves update() *)
update_unguarded(c, current_time, t, lo, rc, co, onlineOK, nOK) ==
    LET c1 == mqtt_loop(c, lo, rc)
        c2 == reconnect_step(c1, current_time, t, co, onlineOK)
        c3 == publish_step(c2, current_time, t, nOK)
    IN IF lo = "raise" /\ c.self.mqtt_client
       THEN Return(TransportCall(c, "loop", "", "", FALSE), FALSE, LoopErr)
       ELSE Return(c3, TRUE, None)

(* update() that takes the publish decision before the drain step *)
update_decides_first(c, current_time, t, lo, rc, co, onlineOK, nOK) ==
    LET c1 == mqtt_loop(c, lo, rc)
        c2 == reconnect_step(c1, current_time, t, co, onlineOK)
        c3 == IF PublishDue(c.self, current_time)
              THEN publish_sensor_data(c2, nOK, t) ELSE c2
    IN Return(c3, TRUE, None)

(* update(): current_time is read first; t is what time.monotonic() returns *)
(* once loop() has returned                                                *)
update(c, current_time, t, lo, rc, co, onlineOK, nOK) ==
    LET c1 == mqtt_loop(c, lo, rc)
        c2 == reconnect_step(c1, current_time, t, co, onlineOK)
        c3 == publish_step(c2, current_time, t, nOK)
    IN Return(c3, TRUE, None)

(* The control routes answer with a plain-text body *)
Response(c, text) == Return(c, TRUE, text)

mqtt_publish_manual(c, nOK, t) ==
    IF ~c.self.connected THEN Response(c, "Not connected")
    ELSE LET r == publish_sensor_data(c, nOK, t)
         IN IF r.ret.ok THEN Response(r, "Test data published")
            ELSE Response(r, "Publish failed: " \o r.self.last_error)

----------------------------------------------------------------------------
(* The state machine *)

(* history of the last two times something happened *)
Shift(h, t) == IF h = <<>> THEN <<t>> ELSE <<h[Len(h)], t>>

Apply(c, name) ==
    /\ mqtt' = c.self
    /\ calls' = c.calls
    /\ ret' = c.ret
    /\ op' = name

NoScenario ==
    /\ pc = "main"
    /\ UNCHANGED <<pc, start_time, start_age, publish_count>>
    /\ UNCHANGED <<sensorVars, configVars, supervisorVars>>

(* The parts of the node that a run of the session alone leaves as they    *)
(* are after construction                                                  *)
SensorIdle ==
    /\ sht45 = [state |-> "absent"]
    /\ sensor_data = None
    /\ payloads = <<>>

ConfigIdle ==
    /\ settings = None
    /\ config_py = None
    /\ config = None
    /\ broker = None

SupervisorIdle ==
    /\ server = None
    /\ modules = <<>>
    /\ routes = {}
    /\ pending = <<>>
    /\ trace = <<>>

Elsewhere == SensorIdle /\ ConfigIdle /\ SupervisorIdle

Init ==
    /\ \E clientOK \in BOOLEAN, interval \in PublishIntervals :
           mqtt = NewModule(clientOK, interval)
    /\ now = 0
    /\ op = "init"
    /\ ret = [ok |-> TRUE, msg |-> None]
    /\ calls = <<>>
    /\ auto = <<>>
    /\ attempt = <<>>
    /\ pc = "main"
    /\ start_time = -1
    /\ start_age = -1
    /\ publish_count = 0
    /\ Elsewhere

(* time passes between two operations (time.sleep in the loop) *)
Advance ==
    /\ NoScenario
    /\ now + TimeStep <= MaxTime
    /\ now' = now + TimeStep
    /\ op' = "sleep"
    /\ ret' = [ok |-> TRUE, msg |-> None]
    /\ calls' = <<>>
    /\ UNCHANGED <<mqtt, auto, attempt>>

(* one module tick of run_main_loop; the outcome of a transport call is    *)
(* chosen only where update() makes the call                               *)
Update ==
    /\ NoScenario
    /\ \E lo \in (IF mqtt.mqtt_client THEN LoopOutcomes ELSE {"ok"}) :
       \E rc \in (IF lo = "on_disconnect" THEN DisconnectCodes ELSE {0}) :
         /\ lo = "on_disconnect" => mqtt.connected
         /\ LET c1 == mqtt_loop(Ctx(mqtt), lo, rc)
                rdue == ReconnectDue(c1.self, now)
            IN \E co \in (IF rdue THEN ConnectOutcomes ELSE {"ack"}) :
               \E onlineOK \in (IF rdue /\ co = "ack" THEN BOOLEAN ELSE {TRUE}) :
                 LET c2 == reconnect_step(c1, now, now, co, onlineOK)
                     pdue == PublishDue(c2.self, now)
                 IN \E nOK \in (IF pdue THEN 0..Len(SensorTopics) ELSE {Len(SensorTopics)}) :
                      /\ Apply(update(Ctx(mqtt), now, now, lo, rc, co, onlineOK, nOK), "update")
                      /\ attempt' = IF rdue THEN Shift(attempt, now) ELSE attempt
                      /\ auto' = IF pdue THEN Shift(auto, now) ELSE auto
    /\ UNCHANGED now

(* connect_mqtt(), called by the program or through POST /mqtt-connect *)
ConnectMqtt ==
    /\ NoScenario
    /\ \E co \in (IF ~mqtt.connected /\ mqtt.mqtt_client THEN ConnectOutcomes ELSE {"ack"}) :
       \E onlineOK \in (IF ~mqtt.connected /\ mqtt.mqtt_client /\ co = "ack"
                        THEN BOOLEAN ELSE {TRUE}) :
         Apply(connect_mqtt(Ctx(mqtt), co, onlineOK), "connect_mqtt")
    /\ UNCHANGED <<now, auto, attempt>>

(* disconnect_mqtt(), called by the program or through POST /mqtt-disconnect *)
DisconnectMqtt ==
    /\ NoScenario
    /\ \E offlineOK \in (IF mqtt.connected THEN BOOLEAN ELSE {TRUE}) :
       \E discOK \in (IF mqtt.connected /\ offlineOK THEN BOOLEAN ELSE {TRUE}) :
         Apply(disconnect_mqtt(Ctx(mqtt), offlineOK, discOK), "disconnect_mqtt")
    /\ UNCHANGED <<now, auto, attempt>>

(* publish_sensor_data(), called by the program *)
PublishSensorData ==
    /\ NoScenario
    /\ \E nOK \in (IF mqtt.connected THEN 0..Len(SensorTopics) ELSE {Len(SensorTopics)}) :
         Apply(publish_sensor_data(Ctx(mqtt), nOK, now), "publish_sensor_data")
    /\ UNCHANGED <<now, auto, attempt>>

(* POST /mqtt-publish, dispatched by server.poll() *)
RoutePublish ==
    /\ NoScenario
    /\ \E nOK \in (IF mqtt.connected THEN 0..Len(SensorTopics) ELSE {Len(SensorTopics)}) :
         Apply(mqtt_publish_manual(Ctx(mqtt), nOK, now), "mqtt_publish_manual")
    /\ UNCHANGED <<now, auto, attempt>>

Next ==
    \/ Advance
    \/ Update
    \/ ConnectMqtt
    \/ DisconnectMqtt
    \/ PublishSensorData
    \/ RoutePublish

Spec == Init /\ [][Next]_vars

----------------------------------------------------------------------------
(* The same session and operations with the loop waking at the clock       *)
(* values next to the two thresholds of update(): one second before and at *)
(* the publish interval, at and one second after the reconnect interval.   *)

TickTimes ==
    {0,
     Scenario.interval - 1, Scenario.interval,
     ReconnectInterval, ReconnectInterval + 1}

TickInit ==
    /\ \E clientOK \in BOOLEAN : mqtt = NewModule(clientOK, Scenario.interval)
    /\ now = 0
    /\ op = "init"
    /\ ret = [ok |-> TRUE, msg |-> None]
    /\ calls = <<>>
    /\ auto = <<>>
    /\ attempt = <<>>
    /\ pc = "main"
    /\ start_time = -1
    /\ start_age = -1
    /\ publish_count = 0
    /\ Elsewhere

(* time.sleep: the loop wakes at the next of the clock values *)
TickAdvance ==
    /\ NoScenario
    /\ \E t \in TickTimes :
         /\ t > now
         /\ \A u \in TickTimes : u > now => t <= u
         /\ now' = t
    /\ op' = "sleep"
    /\ ret' = [ok |-> TRUE, msg |-> None]
    /\ calls' = <<>>
    /\ UNCHANGED <<mqtt, auto, attempt>>

TickNext ==
    \/ TickAdvance
    \/ Update
    \/ ConnectMqtt
    \/ DisconnectMqtt
    \/ PublishSensorData

TickSpec == TickInit /\ [][TickNext]_vars

----------------------------------------------------------------------------
(* The session up to its shutdown: the operations of TickSpec, ended by    *)
(* cleanup(), after which the session is not used again.                   *)

Cleanup ==
    /\ pc = "main"
    /\ \E offlineOK \in (IF mqtt.connected THEN BOOLEAN ELSE {TRUE}) :
       \E discOK \in (IF mqtt.connected /\ offlineOK THEN BOOLEAN ELSE {TRUE}) :
         Apply(cleanup(Ctx(mqtt), offlineOK, discOK), "cleanup")
    /\ pc' = "shutdown"
    /\ UNCHANGED <<now, auto, attempt, start_time, start_age, publish_count>>
    /\ UNCHANGED <<sensorVars, configVars, supervisorVars>>

ShutdownNext ==
    \/ TickNext
    \/ Cleanup

ShutdownSpec == TickInit /\ [][ShutdownNext]_vars

----------------------------------------------------------------------------
(* The loop against a broker that stays unreachable: every connect()       *)
(* raises, so the session is never connected and last_publish is never     *)
(* read.  run_main_loop alternates one update() with one sleep, for ever.  *)
(* time.monotonic() has no fixed origin and update() reads only the        *)
(* difference between the clock and the reconnect timestamp; each sleep    *)
(* moves the origin to that timestamp, which keeps the difference and the  *)
(* distance between two attempts and lets the loop run without end.        *)

RetryInit ==
    /\ mqtt = NewModule(TRUE, Scenario.interval)
    /\ now = 0
    /\ op = "init"
    /\ ret = [ok |-> TRUE, msg |-> None]
    /\ calls = <<>>
    /\ auto = <<>>
    /\ attempt = <<>>
    /\ pc = "main"
    /\ start_time = -1
    /\ start_age = -1
    /\ publish_count = 0
    /\ Elsewhere

(* module.update() of one loop iteration; loop() returns or raises *)
RetryTick ==
    /\ NoScenario
    /\ op # "update"
    /\ \E lo \in {"ok", "raise"} :
         LET c1 == mqtt_loop(Ctx(mqtt), lo, 0)
         IN /\ Apply(update(Ctx(mqtt), now, now, lo, 0, "raise", TRUE,
                            Len(SensorTopics)), "update")
            /\ attempt' = IF ReconnectDue(c1.self, now)
                          THEN Shift(attempt, now) ELSE attempt
    /\ UNCHANGED <<now, auto>>

(* time.sleep() of the same iteration *)
RetrySleep ==
    /\ NoScenario
    /\ op = "update"
    /\ \E d \in 1..MaxSleep :
         LET origin == IF mqtt.last_reconnect_attempt = NoAttr
                       THEN 0 ELSE mqtt.last_reconnect_attempt
         IN /\ now' = now + d - origin
            /\ mqtt' = [mqtt EXCEPT !.last_reconnect_attempt =
                                        IF @ = NoAttr THEN @ ELSE @ - origin]
            /\ attempt' = [i \in 1..Len(attempt) |-> attempt[i] - origin]
    /\ op' = "sleep"
    /\ ret' = [ok |-> TRUE, msg |-> None]
    /\ calls' = <<>>
    /\ UNCHANGED auto

RetryNext ==
    \/ RetryTick
    \/ RetrySleep

(* neither update() nor sleep() blocks, so the loop always takes its next  *)
(* step                                                                    *)
RetrySpec ==
    RetryInit /\ [][RetryNext]_vars /\ WF_vars(RetryTick) /\ WF_vars(RetrySleep)

----------------------------------------------------------------------------
(* The timed test run of code.py: connect, optionally publish by hand,     *)
(* then tick once per second and count the ticks that moved last_publish.  *)
(* The broker is reachable and every transport call succeeds.              *)

AllOK == Len(SensorTopics)

TestInit ==
    /\ mqtt = NewModule(TRUE, Scenario.interval)
    /\ now \in 0..MaxBoot
    /\ op = "init"
    /\ ret = [ok |-> TRUE, msg |-> None]
    /\ calls = <<>>
    /\ auto = <<>>
    /\ attempt = <<>>
    /\ pc = "connect"
    /\ start_time = -1
    /\ start_age = -1
    /\ publish_count = 0
    /\ Elsewhere

(* code.py: success, message = mqtt.connect_mqtt() *)
TestConnect ==
    /\ pc = "connect"
    /\ Apply(connect_mqtt(Ctx(mqtt), "ack", TRUE), "connect_mqtt")
    /\ \E manual \in BOOLEAN : pc' = IF manual THEN "publish" ELSE "start"
    /\ UNCHANGED <<now, auto, attempt, start_time, start_age, publish_count>>
    /\ UNCHANGED <<sensorVars, configVars, supervisorVars>>

(* code.py: publish_success = mqtt.publish_sensor_data() *)
TestPublish ==
    /\ pc = "publish"
    /\ Apply(publish_sensor_data(Ctx(mqtt), AllOK, now), "publish_sensor_data")
    /\ pc' = "start"
    /\ UNCHANGED <<now, auto, attempt, start_time, start_age, publish_count>>
    /\ UNCHANGED <<sensorVars, configVars, supervisorVars>>

(* code.py: start_time = time.monotonic(); publish_count = 0 *)
TestStart ==
    /\ pc = "start"
    /\ start_time' = now
    /\ start_age' = now - mqtt.last_publish
    /\ publish_count' = 0
    /\ pc' = "loop"
    /\ UNCHANGED <<mqtt, now, op, ret, calls, auto, attempt>>
    /\ UNCHANGED <<sensorVars, configVars, supervisorVars>>

(* code.py: one iteration of the while loop: poll, update, count, sleep(1) *)
TestLoop ==
    /\ pc = "loop"
    /\ now - start_time < Scenario.window
    /\ LET c == update(Ctx(mqtt), now, now, "ok", 0, "ack", TRUE, AllOK)
       IN /\ Apply(c, "update")
          /\ publish_count' = IF c.self.last_publish > mqtt.last_publish
                              THEN publish_count + 1 ELSE publish_count
          /\ auto' = IF PublishDue(mqtt, now) THEN Shift(auto, now) ELSE auto
    /\ now' = now + 1
    /\ UNCHANGED <<attempt, pc, start_time, start_age>>
    /\ UNCHANGED <<sensorVars, configVars, supervisorVars>>

(* code.py: the while condition fails *)
TestDone ==
    /\ pc = "loop"
    /\ now - start_time >= Scenario.window
    /\ pc' = "done"
    /\ UNCHANGED <<mqtt, now, op, ret, calls, auto, attempt,
                   start_time, start_age, publish_count>>
    /\ UNCHANGED <<sensorVars, configVars, supervisorVars>>

TestNext ==
    \/ TestConnect
    \/ TestPublish
    \/ TestStart
    \/ TestLoop
    \/ TestDone

TestSpec == TestInit /\ [][TestNext]_vars

----------------------------------------------------------------------------
(* Sensor readings.  A number with decimals is held in hundredths; the     *)
(* binary rounding error of the float arithmetic is not modelled.          *)

(* round(): the integer nearest to n / d, ties going to the even one *)
RoundDiv(n, d) ==
    LET q == n \div d
        r == n % d
    IN IF 2 * r < d THEN q
       ELSE IF 2 * r > d THEN q + 1
       ELSE IF q % 2 = 0 THEN q ELSE q + 1

(* random.random() returns k / JitterSteps *)
Jitter == 0..(JitterSteps - 1)

(* the draws tried for the battery voltage: the lowest and the highest *)
BatteryJitter == {0, JitterSteps - 1}

(* The SensorProvider registered as "sht45": not registered, registered    *)
(* without a sensor, one whose measurement raises, one whose               *)
(* get_sensor_reading() itself raises, or one that measures.  temperature  *)
(* and humidity are what the hardware holds (the last values it measured,  *)
(* for a provider that does not deliver them).                             *)
ProviderStates == {"absent", "unavailable", "measure_fails", "broken", "ok"}
Measurements == {[temperature |-> -512, humidity |-> 4005],
                 [temperature |-> 3025, humidity |-> 9995]}
Providers == {[state |-> "absent"]} \cup
             {[state |-> st, temperature |-> 3025, humidity |-> 9995] :
                  st \in ProviderStates \ {"absent", "ok"}} \cup
             {[state |-> "ok", temperature |-> m.temperature, humidity |-> m.humidity] :
                  m \in Measurements}

(* SHT45Module.get_sensor_reading *)
get_sensor_reading(p) ==
    IF p.state = "broken" THEN [raised |-> TRUE, success |-> FALSE]
    ELSE IF p.state = "ok"
    THEN [raised |-> FALSE, success |-> TRUE,
          temperature |-> RoundDiv(p.temperature, 10) * 10,
          humidity |-> RoundDiv(p.humidity, 10) * 10]
    ELSE [raised |-> FALSE, success |-> FALSE]

(* round(3.7 + 0.3 * random.random(), 2) *)
battery_voltage(kB) == RoundDiv(100 * (37 * JitterSteps + 3 * kB), 10 * JitterSteps)

(* the mock reading with twice the temperature variation *)
fallback_reading_wide(current_time, kT, kH, kB) ==
    [temperature |-> RoundDiv(100 * (22 * 2 * JitterSteps + 4 * (JitterSteps - 2 * kT)),
                              2 * JitterSteps),
     humidity |-> 10 * RoundDiv(10 * (65 * 2 * JitterSteps + 5 * (JitterSteps - 2 * kH)),
                                2 * JitterSteps),
     battery_voltage |-> battery_voltage(kB),
     timestamp |-> current_time,
     node_id |-> "node01"]

(* get_sensor_data, fallback to mock data: 0.5 - random.random() is        *)
(* (JitterSteps - 2k) / (2 * JitterSteps); temperature is rounded to two   *)
(* places and humidity to one                                              *)
fallback_reading(current_time, kT, kH, kB) ==
    [temperature |-> RoundDiv(100 * (22 * 2 * JitterSteps + 2 * (JitterSteps - 2 * kT)),
                              2 * JitterSteps),
     humidity |-> 10 * RoundDiv(10 * (65 * 2 * JitterSteps + 5 * (JitterSteps - 2 * kH)),
                                2 * JitterSteps),
     battery_voltage |-> battery_voltage(kB),
     timestamp |-> current_time,
     node_id |-> "node01"]

(* get_sensor_data that falls back to the values the provider holds *)
get_sensor_data_stale(p, current_time, kT, kH, kB) ==
    IF p.state = "absent" THEN fallback_reading(current_time, kT, kH, kB)
    ELSE [temperature |-> RoundDiv(p.temperature, 10) * 10,
          humidity |-> RoundDiv(p.humidity, 10) * 10,
          battery_voltage |-> battery_voltage(kB),
          timestamp |-> current_time,
          node_id |-> "node01"]

(* get_sensor_data; kT, kH and kB are the draws of random.random() *)
get_sensor_data(p, current_time, kT, kH, kB) ==
    LET available == p.state \notin {"absent", "unavailable"}
        reading == get_sensor_reading(p)
    IN IF available /\ ~reading.raised /\ reading.success
       THEN [temperature |-> reading.temperature,
             humidity |-> reading.humidity,
             battery_voltage |-> battery_voltage(kB),
             timestamp |-> current_time,
             node_id |-> "node01"]
       ELSE fallback_reading(current_time, kT, kH, kB)

(* str() of a float *)
str_float(v) ==
    LET a == IF v < 0 THEN -v ELSE v
        frac == a % 100
    IN (IF v < 0 THEN "-" ELSE "") \o ToString(a \div 100) \o "." \o
       (IF frac % 10 = 0 THEN ToString(frac \div 10)
        ELSE ToString(frac \div 10) \o ToString(frac % 10))

(* json.dumps(status_data): every value as the text it is serialised to *)
json_dumps(status_data) ==
    [status |-> "\"" \o status_data.status \o "\"",
     timestamp |-> ToString(status_data.timestamp),
     data |-> [temperature |-> str_float(status_data.data.temperature),
               humidity |-> str_float(status_data.data.humidity),
               battery_voltage |-> str_float(status_data.data.battery_voltage),
               timestamp |-> ToString(status_data.data.timestamp),
               node_id |-> "\"" \o status_data.data.node_id \o "\""]]

(* the payloads when the status document is built from a second reading *)
SensorWrites_rereads(data) ==
    <<str_float(data.temperature),
      str_float(data.humidity),
      str_float(data.battery_voltage),
      json_dumps([status |-> "online", timestamp |-> data.timestamp,
                  data |-> fallback_reading(data.timestamp, 0, 0, 0)])>>

(* publish_sensor_data: the payloads of the four writes, in order *)
SensorWrites(data) ==
    <<str_float(data.temperature),
      str_float(data.humidity),
      str_float(data.battery_voltage),
      json_dumps([status |-> "online", timestamp |-> data.timestamp, data |-> data])>>

(* A connected session publishing readings: the provider is as the program *)
(* registered it, and each publish draws its own jitter.                   *)
SensorInit ==
    /\ mqtt = NewModule(TRUE, Scenario.interval)
    /\ now = MaxBoot
    /\ op = "init"
    /\ ret = [ok |-> TRUE, msg |-> None]
    /\ calls = <<>>
    /\ auto = <<>>
    /\ attempt = <<>>
    /\ pc = "main"
    /\ start_time = -1
    /\ start_age = -1
    /\ publish_count = 0
    /\ sht45 \in Providers
    /\ sensor_data = None
    /\ payloads = <<>>
    /\ ConfigIdle
    /\ SupervisorIdle

(* connect_mqtt() with a reachable broker *)
SensorConnect ==
    /\ ~mqtt.connected
    /\ \E onlineOK \in BOOLEAN :
         Apply(connect_mqtt(Ctx(mqtt), "ack", onlineOK), "connect_mqtt")
    /\ UNCHANGED <<now, auto, attempt, pc, start_time, start_age, publish_count>>
    /\ UNCHANGED <<sensorVars, configVars, supervisorVars>>

(* publish_sensor_data() on the connected session: one reading is gathered *)
(* and the first nOK writes succeed                                        *)
SensorPublish ==
    /\ mqtt.connected
    /\ \E kT \in Jitter, kH \in Jitter, kB \in BatteryJitter, nOK \in 0..Len(SensorTopics) :
         LET c == publish_sensor_data(Ctx(mqtt), nOK, now)
             data == get_sensor_data(sht45, now, kT, kH, kB)
         IN /\ Apply(c, "publish_sensor_data")
            /\ sensor_data' = data
            /\ payloads' = SubSeq(SensorWrites(data), 1, Len(c.calls))
    /\ UNCHANGED <<now, auto, attempt, pc, start_time, start_age, publish_count>>
    /\ UNCHANGED <<sht45, configVars, supervisorVars>>

SensorNext ==
    \/ SensorConnect
    \/ SensorPublish

SensorSpec == SensorInit /\ [][SensorNext]_vars

----------------------------------------------------------------------------
(* Configuration.  settings.toml gives each key its text; config.py is     *)
(* missing, does not compile, or is a module defining some attributes.  A  *)
(* conversion is a table from the texts it accepts to their values; any    *)
(* other text makes it raise.  Numbers with decimals are in hundredths.    *)

IntText == ("1883" :> 1883) @@ ("1884" :> 1884) @@ ("60" :> 60) @@
           ("45" :> 45) @@ ("90" :> 90)
FloatText == ("0.5" :> 50) @@ ("0.75" :> 75)
EntityText == ("lab&amp;2" :> "lab&2")
LowerText == ("True" :> "true")

int(v) == IF v \in DOMAIN IntText THEN [ok |-> TRUE, val |-> IntText[v]]
          ELSE [ok |-> FALSE, val |-> 0]

float(v) == IF v \in DOMAIN FloatText THEN [ok |-> TRUE, val |-> FloatText[v]]
            ELSE [ok |-> FALSE, val |-> 0]

decode_html_entities(text) == IF text \in DOMAIN EntityText THEN EntityText[text] ELSE text

lower(text) == IF text \in DOMAIN LowerText THEN LowerText[text] ELSE text

(* os.getenv(key, default): None stands for a key the file does not hold *)
getenv(s, key, default) == IF s[key] # None THEN s[key] ELSE default

(* truth value of what os.getenv returns *)
Truthy(v) == v # None /\ v # ""

(* settings.toml: what each key holds *)
SettingsFiles ==
    [DEBUG_MODE : {None, "True"},
     WIFI_SSID : {None, "", "lab&amp;2"},
     WIFI_PASSWORD : {None, "secret"},
     BLINK_INTERVAL : {None, "0.5", "fast"},
     MQTT_BROKER : {None, "10.0.0.2"},
     MQTT_PORT : {None, "1884", "mqtt"},
     MQTT_PUBLISH_INTERVAL : {None, "45", "soon"},
     MQTT_KEEPALIVE : {None, "90"}]

(* config.py: missing, not compiling, or a module; None stands for an      *)
(* attribute the module does not define                                    *)
ScriptAttrs ==
    [WIFI_SSID : {None, "barn"},
     WIFI_PASSWORD : {None, "pw2"},
     BLINK_INTERVAL : {None, "0.75", "slow"}]

NoAttrs == [WIFI_SSID |-> None, WIFI_PASSWORD |-> None, BLINK_INTERVAL |-> None]

ConfigScripts == {[kind |-> "missing", attrs |-> NoAttrs],
                  [kind |-> "malformed", attrs |-> NoAttrs]} \cup
                 {[kind |-> "module", attrs |-> f] : f \in ScriptAttrs}

(* class Config, with foundation.config_failed *)
NewConfig ==
    [WIFI_SSID |-> "wicdhub",
     WIFI_PASSWORD |-> "pudden789",
     BLINK_INTERVAL |-> 25,
     DEBUG_MODE |-> FALSE,
     config_failed |-> FALSE]

(* load_user_config, lines 104-121: the TOML approach *)
toml_config(cfg, toml_ssid, toml_password, toml_blink) ==
    LET c1 == [cfg EXCEPT !.WIFI_SSID = decode_html_entities(toml_ssid),
                          !.WIFI_PASSWORD = decode_html_entities(toml_password)]
    IN IF Truthy(toml_blink)
       THEN IF float(toml_blink).ok
            THEN [c1 EXCEPT !.BLINK_INTERVAL = float(toml_blink).val]
            ELSE [c1 EXCEPT !.config_failed = TRUE]
       ELSE c1

(* load_user_config, lines 127-148: the attributes of config.py, each in   *)
(* its own try                                                             *)
script_config(cfg, attrs) ==
    LET c1 == IF attrs.WIFI_SSID # None
              THEN [cfg EXCEPT !.WIFI_SSID = decode_html_entities(attrs.WIFI_SSID)]
              ELSE [cfg EXCEPT !.config_failed = TRUE]
        c2 == IF attrs.WIFI_PASSWORD # None
              THEN [c1 EXCEPT !.WIFI_PASSWORD = decode_html_entities(attrs.WIFI_PASSWORD)]
              ELSE [c1 EXCEPT !.config_failed = TRUE]
        c3 == IF attrs.BLINK_INTERVAL # None /\ float(attrs.BLINK_INTERVAL).ok
              THEN [c2 EXCEPT !.BLINK_INTERVAL = float(attrs.BLINK_INTERVAL).val]
              ELSE [c2 EXCEPT !.config_failed = TRUE]
    IN [c3 EXCEPT !.DEBUG_MODE = FALSE]

(* the emergency defaults without the network name *)
emergency_defaults_partial(cfg) ==
    IF cfg.config_failed
    THEN [cfg EXCEPT !.WIFI_PASSWORD = "pudden789",
                     !.BLINK_INTERVAL = 10,
                     !.DEBUG_MODE = FALSE]
    ELSE cfg

(* load_user_config, lines 154-160 *)
emergency_defaults(cfg) ==
    IF cfg.config_failed
    THEN [cfg EXCEPT !.WIFI_SSID = "wicdhub",
                     !.WIFI_PASSWORD = "pudden789",
                     !.BLINK_INTERVAL = 10,
                     !.DEBUG_MODE = FALSE]
    ELSE cfg

(* load_user_config, lines 86-91 *)
toml_debug_mode(cfg, s) ==
    IF Truthy(getenv(s, "DEBUG_MODE", None))
    THEN [cfg EXCEPT !.DEBUG_MODE =
              lower(getenv(s, "DEBUG_MODE", None)) \in {"true", "1", "yes", "on"}]
    ELSE cfg

(* load_user_config without the outer try: a failing import escapes *)
load_user_config_unguarded(cfg, s, cp) ==
    LET c0 == toml_debug_mode(cfg, s)
        toml_ssid == getenv(s, "WIFI_SSID", None)
        toml_password == getenv(s, "WIFI_PASSWORD", None)
        toml_blink == getenv(s, "BLINK_INTERVAL", None)
    IN IF Truthy(toml_ssid) /\ Truthy(toml_password)
       THEN [self |-> toml_config(c0, toml_ssid, toml_password, toml_blink),
             escaped |-> None]
       ELSE IF cp.kind # "module"
       THEN [self |-> c0, escaped |-> "config.py " \o cp.kind]
       ELSE [self |-> emergency_defaults(script_config(c0, cp.attrs)), escaped |-> None]

(* load_user_config that takes the TOML approach when the network name     *)
(* alone is found                                                          *)
load_user_config_ssid_only(cfg, s, cp) ==
    LET c0 == toml_debug_mode(cfg, s)
        toml_ssid == getenv(s, "WIFI_SSID", None)
        toml_password == getenv(s, "WIFI_PASSWORD", None)
        toml_blink == getenv(s, "BLINK_INTERVAL", None)
    IN IF Truthy(toml_ssid)
       THEN [self |-> toml_config(c0, toml_ssid, toml_password, toml_blink),
             escaped |-> None]
       ELSE IF cp.kind # "module"
       THEN [self |-> emergency_defaults([c0 EXCEPT !.config_failed = TRUE]),
             escaped |-> None]
       ELSE [self |-> emergency_defaults(script_config(c0, cp.attrs)), escaped |-> None]

(* load_user_config; s is settings.toml and cp is config.py.  The TOML     *)
(* approach returns at line 121, before the emergency defaults; a failing  *)
(* import lands in the outer except                                        *)
load_user_config(cfg, s, cp) ==
    LET c0 == toml_debug_mode(cfg, s)
        toml_ssid == getenv(s, "WIFI_SSID", None)
        toml_password == getenv(s, "WIFI_PASSWORD", None)
        toml_blink == getenv(s, "BLINK_INTERVAL", None)
    IN IF Truthy(toml_ssid) /\ Truthy(toml_password)
       THEN [self |-> toml_config(c0, toml_ssid, toml_password, toml_blink),
             escaped |-> None]
       ELSE IF cp.kind # "module"
       THEN [self |-> emergency_defaults([c0 EXCEPT !.config_failed = TRUE]),
             escaped |-> None]
       ELSE [self |-> emergency_defaults(script_config(c0, cp.attrs)), escaped |-> None]

(* the defaults of the except branch of _load_mqtt_config *)
BrokerDefaults ==
    [broker_host |-> "192.168.99.1",
     broker_port |-> 1883,
     publish_interval |-> 60,
     keepalive |-> 60]

(* _load_mqtt_config whose except branch leaves the port unset *)
load_mqtt_config_no_port(s) ==
    LET port == int(getenv(s, "MQTT_PORT", "1883"))
        interval == int(getenv(s, "MQTT_PUBLISH_INTERVAL", "60"))
        keepalive == int(getenv(s, "MQTT_KEEPALIVE", "60"))
    IN IF port.ok /\ interval.ok /\ keepalive.ok
       THEN [broker_host |-> getenv(s, "MQTT_BROKER", "192.168.99.1"),
             broker_port |-> port.val,
             publish_interval |-> interval.val,
             keepalive |-> keepalive.val]
       ELSE [BrokerDefaults EXCEPT !.broker_port = 0]

(* _load_mqtt_config: one try around all the conversions *)
load_mqtt_config(s) ==
    LET port == int(getenv(s, "MQTT_PORT", "1883"))
        interval == int(getenv(s, "MQTT_PUBLISH_INTERVAL", "60"))
        keepalive == int(getenv(s, "MQTT_KEEPALIVE", "60"))
    IN IF port.ok /\ interval.ok /\ keepalive.ok
       THEN [broker_host |-> getenv(s, "MQTT_BROKER", "192.168.99.1"),
             broker_port |-> port.val,
             publish_interval |-> interval.val,
             keepalive |-> keepalive.val]
       ELSE BrokerDefaults

(* Start-up: the foundation loads its configuration, then the MQTT module  *)
(* is constructed and loads the broker configuration.                      *)
ConfigInit ==
    /\ mqtt = None
    /\ now = 0
    /\ op = "init"
    /\ ret = [ok |-> TRUE, msg |-> None]
    /\ calls = <<>>
    /\ auto = <<>>
    /\ attempt = <<>>
    /\ pc = "main"
    /\ start_time = -1
    /\ start_age = -1
    /\ publish_count = 0
    /\ settings \in SettingsFiles
    /\ config_py \in ConfigScripts
    /\ config = NewConfig
    /\ broker = None
    /\ SensorIdle
    /\ SupervisorIdle

(* initialize_network(): self.load_user_config() *)
LoadUserConfig ==
    /\ op = "init"
    /\ LET r == load_user_config(config, settings, config_py)
       IN /\ config' = r.self
          /\ ret' = [ok |-> r.escaped = None, msg |-> r.escaped]
    /\ op' = "load_user_config"
    /\ UNCHANGED <<mqtt, now, calls, auto, attempt, pc, start_time, start_age,
                   publish_count, settings, config_py, broker>>
    /\ UNCHANGED <<sensorVars, supervisorVars>>

(* MQTTModule(foundation): self._load_mqtt_config() *)
LoadMqttConfig ==
    /\ op = "load_user_config"
    /\ broker' = load_mqtt_config(settings)
    /\ mqtt' = NewModule(TRUE, broker'.publish_interval)
    /\ op' = "load_mqtt_config"
    /\ ret' = [ok |-> TRUE, msg |-> None]
    /\ UNCHANGED <<now, calls, auto, attempt, pc, start_time, start_age,
                   publish_count, settings, config_py, config>>
    /\ UNCHANGED <<sensorVars, supervisorVars>>

ConfigNext ==
    \/ LoadUserConfig
    \/ LoadMqttConfig

ConfigSpec == ConfigInit /\ [][ConfigNext]_vars

----------------------------------------------------------------------------
(* The supervisor: the registry, the shared listener and the loop.         *)
(*                                                                         *)
(* foundation.modules is a dict, held here as the sequence of its entries  *)
(* in insertion order.  The firmware runs on CircuitPython, whose dict is  *)
(* a hash table that does not keep insertion order, so the order in which  *)
(* modules.values() yields the modules is one of the permutations.  The    *)
(* HTTP server is an external collaborator: Server.poll() accepts at most  *)
(* one waiting connection and runs its handler before it returns.          *)

(* The modules the programs register, and the routes each one binds *)
ModuleNames == {"sht45", "mqtt", "led"}

(* the names the programs register modules under *)
RegistryNames == {"sht45", "mqtt"}

ModuleRoutes ==
    [sht45 |-> {},
     mqtt |-> {"/mqtt-connect", "/mqtt-disconnect", "/mqtt-publish"},
     led |-> {}]

Requests == {"/status", "/mqtt-publish"}

(* the keys of foundation.modules *)
Registered(ms) == {ms[i].name : i \in 1..Len(ms)}

(* a registry that adds an entry on every assignment *)
dict_set_appends(ms, name, module) ==
    Append(ms, [name |-> name, module |-> module])

(* self.modules[name] = module *)
dict_set(ms, name, module) ==
    IF name \in Registered(ms)
    THEN [i \in 1..Len(ms) |-> IF ms[i].name = name
                               THEN [name |-> name, module |-> module] ELSE ms[i]]
    ELSE Append(ms, [name |-> name, module |-> module])

(* get_module: self.modules.get(name) *)
get_module(ms, name) ==
    IF name \in Registered(ms)
    THEN (CHOOSE e \in {ms[i] : i \in 1..Len(ms)} : e.name = name).module
    ELSE None

(* module.register_routes(server): a module with routes applies the        *)
(* server.route decorator, which raises when there is no server            *)
register_routes(module, srv) == [raised |-> ModuleRoutes[module] # {} /\ srv = None,
                                 bound |-> IF srv = None THEN {} ELSE ModuleRoutes[module]]

(* register_module: the module is stored, then its routes are registered;  *)
(* when register_routes raises, the exception leaves register_module       *)
register_module(self, name, module) ==
    LET stored == dict_set(self.modules, name, module)
        r == register_routes(module, self.server)
    IN [modules |-> stored,
        server |-> self.server,
        routes |-> self.routes \cup r.bound,
        raised |-> r.raised]

(* the orders in which modules.values() may yield the entries *)
ValueOrders(ms) ==
    {o \in [1..Len(ms) -> 1..Len(ms)] : \A i, j \in 1..Len(ms) : i # j => o[i] # o[j]}

(* Server.poll(): how many of the waiting requests it handles *)
poll(waiting) == IF waiting = <<>> THEN 0 ELSE 1

(* an iteration that catches the exception of an update() and goes on *)
loop_iteration_guarded(ms, waiting, o, failing) ==
    <<[ev |-> "poll",
       handled |-> SubSeq(waiting, 1, poll(waiting)),
       left |-> Len(waiting) - poll(waiting)]>> \o
    [i \in 1..Len(ms) |->
        [ev |-> "update", name |-> ms[o[i]].name, module |-> ms[o[i]].module,
         raised |-> i = failing]]

(* one iteration of run_main_loop: poll, then update() of every module in  *)
(* the order o.  The update() of the module at position failing of that    *)
(* order raises (0: none does); nothing catches it, so the iteration ends  *)
(* there                                                                   *)
loop_iteration(ms, waiting, o, failing) ==
    <<[ev |-> "poll",
       handled |-> SubSeq(waiting, 1, poll(waiting)),
       left |-> Len(waiting) - poll(waiting)]>> \o
    [i \in 1..(IF failing = 0 THEN Len(ms) ELSE failing) |->
        [ev |-> "update", name |-> ms[o[i]].name, module |-> ms[o[i]].module,
         raised |-> i = failing]]

(* The node after initialize_network(): with a listener, or without one    *)
(* when the network did not come up.                                       *)
SupervisorInit ==
    /\ mqtt = None
    /\ now = 0
    /\ op = "init"
    /\ ret = [ok |-> TRUE, msg |-> None]
    /\ calls = <<>>
    /\ auto = <<>>
    /\ attempt = <<>>
    /\ pc = "main"
    /\ start_time = -1
    /\ start_age = -1
    /\ publish_count = 0
    /\ server \in {None, "Server"}
    /\ modules = <<>>
    /\ routes = {}
    /\ pending = <<>>
    /\ trace = <<>>
    /\ SensorIdle
    /\ ConfigIdle

SupervisorFrame ==
    /\ UNCHANGED <<mqtt, now, calls, auto, attempt, start_time, start_age,
                   publish_count>>
    /\ UNCHANGED <<sensorVars, configVars>>

(* foundation.register_module(name, module), called by the program while  *)
(* it runs; module is one of the module classes                            *)
RegisterModule ==
    /\ pc = "main"
    /\ \E name \in RegistryNames, module \in ModuleNames :
         LET r == register_module([modules |-> modules, server |-> server,
                                   routes |-> routes], name, module)
         IN /\ modules' = r.modules
            /\ routes' = r.routes
            /\ ret' = [ok |-> ~r.raised, msg |-> [name |-> name, module |-> module]]
    /\ op' = "register_module"
    /\ UNCHANGED <<pc, server, pending, trace>>
    /\ SupervisorFrame

(* a client sends a request; it waits until poll() accepts it *)
Arrive ==
    /\ server # None
    /\ Len(pending) < MaxPending
    /\ \E request \in Requests : pending' = Append(pending, request)
    /\ op' = "request"
    /\ ret' = [ok |-> TRUE, msg |-> None]
    /\ UNCHANGED <<pc, server, modules, routes, trace>>
    /\ SupervisorFrame

(* run_main_loop: one iteration of the while loop; an exception of an      *)
(* update() leaves run_main_loop and the program ends                      *)
LoopIteration ==
    /\ pc = "main"
    /\ server # None
    /\ \E o \in ValueOrders(modules), failing \in 0..Len(modules) :
         /\ trace' = loop_iteration(modules, pending, o, failing)
         /\ pc' = IF failing = 0 THEN pc ELSE "halt"
         /\ ret' = [ok |-> failing = 0, msg |-> None]
    /\ pending' = SubSeq(pending, poll(pending) + 1, Len(pending))
    /\ op' = "run_main_loop"
    /\ UNCHANGED <<server, modules, routes>>
    /\ SupervisorFrame

SupervisorNext ==
    \/ RegisterModule
    \/ Arrive
    \/ LoopIteration

SupervisorSpec == SupervisorInit /\ [][SupervisorNext]_vars

----------------------------------------------------------------------------
(* The program: bring-up of the network, then registration, serving and    *)
(* the loop (test_node_code.py 19-54, code.py 23-36).  The radio is an     *)
(* external collaborator: wifi.radio.connect() joins the network, returns  *)
(* without a connection, or raises.                                        *)

RadioOutcomes == {"connected", "not_connected", "raise"}

(* the configuration files the bring-up is run with: the network keys vary *)
BootSettings ==
    {s \in SettingsFiles :
        /\ s.DEBUG_MODE = None /\ s.BLINK_INTERVAL = None /\ s.MQTT_BROKER = None
        /\ s.MQTT_PORT = None /\ s.MQTT_PUBLISH_INTERVAL = None
        /\ s.MQTT_KEEPALIVE = None}

(* safe_connect_client: success only when connect() returned and the radio *)
(* reports a connection                                                    *)
safe_connect_client(ssid, password, radio) ==
    [success |-> radio = "connected", ssid |-> ssid, password |-> password]

(* initialize_network that constructs the listener whatever the radio did *)
initialize_network_always_serves(self, s, cp, radio) ==
    LET loaded == load_user_config(self.config, s, cp).self
        client == safe_connect_client(loaded.WIFI_SSID, loaded.WIFI_PASSWORD, radio)
    IN [config |-> [loaded EXCEPT !.WIFI_SSID = client.ssid,
                                  !.WIFI_PASSWORD = client.password],
        server |-> "Server",
        ret |-> client.success]

(* initialize_network: the configuration is loaded, the radio joins the    *)
(* network, and the listener is constructed in the success branch only     *)
initialize_network(self, s, cp, radio) ==
    LET loaded == load_user_config(self.config, s, cp).self
        client == safe_connect_client(loaded.WIFI_SSID, loaded.WIFI_PASSWORD, radio)
    IN [config |-> [loaded EXCEPT !.WIFI_SSID = client.ssid,
                                  !.WIFI_PASSWORD = client.password],
        server |-> IF client.success THEN "Server" ELSE self.server,
        ret |-> client.success]

(* the modules the program registers, in program order *)
BootModules == <<"sht45", "mqtt">>

BootInit ==
    /\ mqtt = None
    /\ now = 0
    /\ op = "init"
    /\ ret = [ok |-> TRUE, msg |-> None]
    /\ calls = <<>>
    /\ auto = <<>>
    /\ attempt = <<>>
    /\ pc = "initialize_network"
    /\ start_time = -1
    /\ start_age = -1
    /\ publish_count = 0
    /\ settings \in BootSettings
    /\ config_py \in ConfigScripts
    /\ config = NewConfig
    /\ broker = None
    /\ SupervisorIdle
    /\ SensorIdle

BootFrame ==
    /\ UNCHANGED <<mqtt, now, calls, auto, attempt, start_time, start_age,
                   publish_count, settings, config_py, broker>>
    /\ UNCHANGED sensorVars

(* if foundation.initialize_network(): ... else: print("Network failed") *)
InitializeNetwork ==
    /\ pc = "initialize_network"
    /\ \E radio \in RadioOutcomes :
         LET r == initialize_network([config |-> config, server |-> server],
                                     settings, config_py, radio)
         IN /\ config' = r.config
            /\ server' = r.server
            /\ ret' = [ok |-> r.ret, msg |-> radio]
            /\ pc' = IF r.ret THEN "register_module" ELSE "halt"
    /\ op' = "initialize_network"
    /\ UNCHANGED <<modules, routes, pending, trace>>
    /\ BootFrame

(* foundation.register_module("sht45", sht45), then ("mqtt", mqtt); an     *)
(* exception of register_module ends the program                           *)
BootRegister ==
    /\ pc = "register_module"
    /\ LET name == BootModules[Len(modules) + 1]
           r == register_module([modules |-> modules, server |-> server,
                                 routes |-> routes], name, name)
       IN /\ modules' = r.modules
          /\ routes' = r.routes
          /\ ret' = [ok |-> ~r.raised, msg |-> [name |-> name, module |-> name]]
          /\ pc' = IF r.raised THEN "halt"
                   ELSE IF Len(r.modules) = Len(BootModules) THEN "start_server"
                   ELSE "register_module"
    /\ op' = "register_module"
    /\ UNCHANGED <<server, config, pending, trace>>
    /\ BootFrame

(* foundation.start_server(): the status route is bound and the listener   *)
(* starts                                                                  *)
StartServer ==
    /\ pc = "start_server"
    /\ routes' = routes \cup {"/status"}
    /\ pc' = "run_main_loop"
    /\ op' = "start_server"
    /\ ret' = [ok |-> TRUE, msg |-> None]
    /\ UNCHANGED <<server, config, modules, pending, trace>>
    /\ BootFrame

(* a client sends a request to the started listener *)
BootArrive ==
    /\ pc = "run_main_loop"
    /\ Len(pending) < MaxPending
    /\ \E request \in Requests : pending' = Append(pending, request)
    /\ op' = "request"
    /\ ret' = [ok |-> TRUE, msg |-> None]
    /\ UNCHANGED <<pc, server, config, modules, routes, trace>>
    /\ BootFrame

(* one iteration of the loop that follows start_server(); an exception of *)
(* an update() ends the program                                            *)
BootLoop ==
    /\ pc = "run_main_loop"
    /\ \E o \in ValueOrders(modules), failing \in 0..Len(modules) :
         /\ trace' = loop_iteration(modules, pending, o, failing)
         /\ pc' = IF failing = 0 THEN pc ELSE "halt"
         /\ ret' = [ok |-> failing = 0, msg |-> None]
    /\ pending' = SubSeq(pending, poll(pending) + 1, Len(pending))
    /\ op' = "run_main_loop"
    /\ UNCHANGED <<server, config, modules, routes>>
    /\ BootFrame

BootNext ==
    \/ InitializeNetwork
    \/ BootRegister
    \/ StartServer
    \/ BootArrive
    \/ BootLoop

BootSpec == BootInit /\ [][BootNext]_vars

----------------------------------------------------------------------------
(* What the last operation did on the transport *)

Indices(cs, name) == {i \in 1..Len(cs) : cs[i].call = name}

Issued(cs, name) == Indices(cs, name) # {}

(* connect calls that were acknowledged: each one ran _on_connect *)
Acks(cs) == Cardinality({i \in Indices(cs, "connect") : cs[i].ok})

ConnectFailed(cs) == \E i \in Indices(cs, "connect") : ~cs[i].ok

(* publish calls carrying a given status payload, and those that went through *)
StatusCalls(cs, payload) ==
    {i \in Indices(cs, "publish") : cs[i].topic = "status" /\ cs[i].payload = payload}

StatusWrites(cs, payload) == {i \in StatusCalls(cs, payload) : cs[i].ok}

(* the writes of publish_sensor_data *)
SensorCalls(cs) ==
    {i \in Indices(cs, "publish") : cs[i].payload \in {"decimal", "json"}}

SensorWriteFailed(cs) == \E i \in SensorCalls(cs) : ~cs[i].ok

----------------------------------------------------------------------------
(* C1: connect_mqtt on a session that is already connected returns success, *)
(* issues no transport call, and leaves the connection state, the           *)
(* last-publish time and the reconnect timer as they were.                  *)
C1_ConnectWhenConnected ==
    [][(mqtt.connected /\ op' = "connect_mqtt") =>
           /\ ret'.ok
           /\ calls' = <<>>
           /\ mqtt'.connected = mqtt.connected
           /\ mqtt'.last_publish = mqtt.last_publish
           /\ mqtt'.last_reconnect_attempt = mqtt.last_reconnect_attempt]_vars

C1_Witness ==
    /\ op = "connect_mqtt"
    /\ mqtt.connected
    /\ ret = [ok |-> TRUE, msg |-> "Already connected"]
    /\ mqtt.last_publish > 0

(* C2: disconnect_mqtt on a session that is already disconnected returns    *)
(* success and performs no transport operation: no offline publish, no      *)
(* teardown.                                                                *)
C2_DisconnectWhenDisconnected ==
    [][(~mqtt.connected /\ op' = "disconnect_mqtt") =>
           /\ ret'.ok
           /\ calls' = <<>>
           /\ ~mqtt'.connected]_vars

C2_Witness ==
    /\ op = "disconnect_mqtt"
    /\ ~mqtt.connected
    /\ ret = [ok |-> TRUE, msg |-> "Not connected"]

C4_Original ==
    Cardinality(StatusWrites(calls, "online")) = Acks(calls)

(* C4 amended: every transition to Connected issues exactly one "online"    *)
(* publish call; the message is written at most once (not at all when that  *)
(* call raises), and no "online" publish is issued without a transition.    *)
C4_OnlineOncePerTransition ==
    [][/\ Cardinality(StatusCalls(calls', "online")) = Acks(calls')
       /\ Cardinality(StatusWrites(calls', "online")) <= Acks(calls')
       /\ (~mqtt.connected /\ mqtt'.connected) => Acks(calls') = 1
       /\ Acks(calls') <= 1]_vars

C4_Witness ==
    /\ mqtt.connected
    /\ Acks(calls) = 1
    /\ Cardinality(StatusWrites(calls, "online")) = 1
    /\ attempt # <<>>

(* C5: publish_sensor_data on a disconnected session returns failure and    *)
(* writes to no topic; POST /mqtt-publish in that state writes to no topic  *)
(* either.                                                                  *)
C5_PublishWhenDisconnected ==
    [][/\ (~mqtt.connected /\ op' = "publish_sensor_data") =>
              (~ret'.ok /\ calls' = <<>>)
       /\ (~mqtt.connected /\ op' = "mqtt_publish_manual") =>
              (calls' = <<>> /\ ret'.msg = "Not connected")]_vars

C5_Witness ==
    /\ op = "publish_sensor_data"
    /\ ~mqtt.connected
    /\ mqtt.mqtt_client
    /\ ~ret.ok
    /\ mqtt.last_error = "Not connected to MQTT broker"

C7_AutoPublishSpacing ==
    Len(auto) = 2 => auto[2] - auto[1] >= mqtt.publish_interval

(* C8: two automatic reconnect attempts are never less than 30 s apart.     *)
C8_ReconnectSpacing ==
    Len(attempt) = 2 => attempt[2] - attempt[1] >= ReconnectInterval

C8_Witness ==
    /\ Len(attempt) = 2
    /\ op = "update"
    /\ Issued(calls, "connect")

(* C9 as stated: with publish interval 5 s, 12 s of ticks on a session that *)
(* stays connected produce exactly 2 automatic publishes.                   *)
C9_Original ==
    pc = "done" => publish_count = 2

(* C9 amended: they produce exactly 2 automatic publishes when at most 3 s  *)
(* had passed since the last publish when the ticking started, and 3 when   *)
(* more had passed (a session that never published counts from time 0).     *)
C9_TwoOrThreePublishes ==
    pc = "done" =>
        publish_count = IF start_age <= 3 * Scenario.interval - Scenario.window
                        THEN 2 ELSE 3

C9_Witness ==
    /\ pc = "done"
    /\ publish_count = 2
    /\ start_age = 0
    /\ now - start_time = Scenario.window

(* C10: when the offline publish of disconnect_mqtt fails, the transport    *)
(* teardown call is still issued.                                           *)
C10_TeardownAfterFailedOffline ==
    (op = "disconnect_mqtt" /\ \E i \in StatusCalls(calls, "offline") : ~calls[i].ok) =>
        Issued(calls, "disconnect")

(* C11: disconnect_mqtt called on a connected session leaves the session    *)
(* disconnected when it returns, whether the offline publish and the        *)
(* transport teardown succeed or fail.                                      *)
C11_DisconnectLeavesDisconnected ==
    [][(mqtt.connected /\ op' = "disconnect_mqtt") => ~mqtt'.connected]_vars

(* C12: in one publish_sensor_data call the values written to the           *)
(* temperature, humidity and battery topics are the values embedded in the  *)
(* JSON status payload of the same call.                                    *)
C12_OneReadingPerPublish ==
    (op = "publish_sensor_data" /\ Len(payloads) = Len(SensorTopics)) =>
        /\ payloads[1] = payloads[4].data.temperature
        /\ payloads[2] = payloads[4].data.humidity
        /\ payloads[3] = payloads[4].data.battery_voltage

C12_Witness ==
    /\ op = "publish_sensor_data"
    /\ ret.ok
    /\ Len(payloads) = Len(SensorTopics)
    /\ payloads[1] = "23.0"
    /\ payloads[4].data.humidity = "67.5"

(* C13: when the provider is not registered, has no sensor, reports         *)
(* success = False or raises, the reading is the synthetic one and the      *)
(* writes are still issued; the provider's reading is used when it reports  *)
(* success, and only then.                                                  *)
C13_FallbackKeepsCycle ==
    op = "publish_sensor_data" =>
        /\ SensorCalls(calls) # {}
        /\ Len(payloads) = Len(calls)
        /\ IF get_sensor_reading(sht45).success /\ sht45.state # "unavailable"
           THEN /\ sensor_data.temperature = get_sensor_reading(sht45).temperature
                /\ sensor_data.humidity = get_sensor_reading(sht45).humidity
           ELSE \E kT \in Jitter, kH \in Jitter, kB \in Jitter :
                    sensor_data = fallback_reading(now, kT, kH, kB)

C13_Witness ==
    /\ op = "publish_sensor_data"
    /\ sht45.state = "measure_fails"
    /\ ret.ok
    /\ Len(payloads) = Len(SensorTopics)
    /\ sensor_data.temperature = 2300

(* C14: with no provider registered, every reading has its temperature in   *)
(* [21.0, 23.0] and its humidity in [62.5, 67.5], whatever the jitter.      *)
C14_FallbackRange ==
    (op = "publish_sensor_data" /\ sht45.state = "absent") =>
        /\ sensor_data.temperature >= 2100 /\ sensor_data.temperature <= 2300
        /\ sensor_data.humidity >= 6250 /\ sensor_data.humidity <= 6750

C14_Witness ==
    /\ op = "publish_sensor_data"
    /\ sht45.state = "absent"
    /\ sensor_data.temperature = 2300
    /\ sensor_data.humidity = 6750

(* What a configuration source holds *)

PrimaryComplete(s) == Truthy(s.WIFI_SSID) /\ Truthy(s.WIFI_PASSWORD)

ScriptLoads(cp) ==
    /\ cp.kind = "module"
    /\ cp.attrs.WIFI_SSID # None
    /\ cp.attrs.WIFI_PASSWORD # None
    /\ cp.attrs.BLINK_INTERVAL # None
    /\ float(cp.attrs.BLINK_INTERVAL).ok

Usable(cfg) ==
    /\ cfg.WIFI_SSID # None
    /\ cfg.WIFI_PASSWORD # None
    /\ cfg.BLINK_INTERVAL \in Nat
    /\ cfg.DEBUG_MODE \in BOOLEAN

(* C15: when MQTT_PORT, MQTT_PUBLISH_INTERVAL or MQTT_KEEPALIVE is absent,  *)
(* the loaded value of that key is its default (1883, 60, 60), whatever     *)
(* the other keys hold.                                                     *)
C15_AbsentKeyTakesDefault ==
    op = "load_mqtt_config" =>
        /\ settings.MQTT_PORT = None => broker.broker_port = 1883
        /\ settings.MQTT_PUBLISH_INTERVAL = None => broker.publish_interval = 60
        /\ settings.MQTT_KEEPALIVE = None => broker.keepalive = 60

C15_Witness ==
    /\ op = "load_mqtt_config"
    /\ settings.MQTT_PORT = None
    /\ settings.MQTT_PUBLISH_INTERVAL = "45"
    /\ broker.broker_port = 1883
    /\ broker.publish_interval = 45

(* C16: when one field fails its conversion, loading goes on, the degraded  *)
(* flag is set, and only that field takes its default while every other     *)
(* field keeps the value loaded for it: in settings.toml and in config.py   *)
(* for the network configuration, and in the broker configuration.          *)
C16_OnlyFailingFieldDefaults ==
    /\ (op = "load_user_config" /\ PrimaryComplete(settings)
            /\ Truthy(settings.BLINK_INTERVAL) /\ ~float(settings.BLINK_INTERVAL).ok) =>
           /\ config.config_failed
           /\ config.WIFI_SSID = decode_html_entities(settings.WIFI_SSID)
           /\ config.WIFI_PASSWORD = decode_html_entities(settings.WIFI_PASSWORD)
           /\ config.BLINK_INTERVAL = NewConfig.BLINK_INTERVAL
    /\ (op = "load_user_config" /\ ~PrimaryComplete(settings)
            /\ config_py.kind = "module"
            /\ config_py.attrs.WIFI_SSID # None
            /\ config_py.attrs.WIFI_PASSWORD # None
            /\ ~ScriptLoads(config_py)) =>
           /\ config.config_failed
           /\ config.WIFI_SSID = decode_html_entities(config_py.attrs.WIFI_SSID)
           /\ config.WIFI_PASSWORD = decode_html_entities(config_py.attrs.WIFI_PASSWORD)
    /\ (op = "load_mqtt_config"
            /\ ~int(getenv(settings, "MQTT_PORT", "1883")).ok
            /\ int(getenv(settings, "MQTT_PUBLISH_INTERVAL", "60")).ok) =>
           /\ broker.broker_port = 1883
           /\ broker.broker_host = getenv(settings, "MQTT_BROKER", "192.168.99.1")
           /\ broker.publish_interval =
                  int(getenv(settings, "MQTT_PUBLISH_INTERVAL", "60")).val
           /\ broker.keepalive = int(getenv(settings, "MQTT_KEEPALIVE", "60")).val

(* C17: load_user_config returns normally, with every field of the          *)
(* configuration set, for every content of settings.toml and for a          *)
(* present, absent or malformed config.py.                                  *)
C17_LoadNeverRaises ==
    op = "load_user_config" => (ret.ok /\ Usable(config))

C17_Witness ==
    /\ op = "load_user_config"
    /\ settings.WIFI_SSID = None
    /\ settings.BLINK_INTERVAL = "fast"
    /\ config_py.kind = "malformed"
    /\ ret.ok
    /\ config.config_failed
    /\ config.WIFI_SSID = "wicdhub"

(* C18: when settings.toml holds both the network name and the secret it    *)
(* is used and config.py is not consulted; otherwise the constants of       *)
(* config.py are used; when that fails too, the hard-coded defaults are.    *)
C18_SourceOrder ==
    op = "load_user_config" =>
        IF PrimaryComplete(settings)
        THEN /\ config.WIFI_SSID = decode_html_entities(settings.WIFI_SSID)
             /\ config.WIFI_PASSWORD = decode_html_entities(settings.WIFI_PASSWORD)
             /\ \A cp \in ConfigScripts :
                    load_user_config(NewConfig, settings, cp).self = config
        ELSE IF ScriptLoads(config_py)
        THEN /\ config.WIFI_SSID = decode_html_entities(config_py.attrs.WIFI_SSID)
             /\ config.WIFI_PASSWORD = decode_html_entities(config_py.attrs.WIFI_PASSWORD)
             /\ config.BLINK_INTERVAL = float(config_py.attrs.BLINK_INTERVAL).val
        ELSE /\ config.WIFI_SSID = "wicdhub"
             /\ config.WIFI_PASSWORD = "pudden789"
             /\ config.BLINK_INTERVAL = 10

C18_Witness ==
    /\ op = "load_user_config"
    /\ settings.WIFI_SSID = ""
    /\ settings.WIFI_PASSWORD = "secret"
    /\ ScriptLoads(config_py)
    /\ config.WIFI_SSID = "barn"
    /\ ~config.config_failed

(* C19: register_module(name, module) binds the routes of the module to     *)
(* the listener before it stores the module: the registry never holds a     *)
(* module whose routes are not bound, and after a completed call            *)
(* get_module(name) returns the module.                                     *)
C19_BoundBeforeStored ==
    /\ \A i \in 1..Len(modules) : ModuleRoutes[modules[i].module] \subseteq routes
    /\ (op = "register_module" /\ ret.ok) =>
           get_module(modules, ret.msg.name) = ret.msg.module

(* C20: in every iteration of the loop the listener is polled and every     *)
(* waiting request is dispatched before the first update(), and the modules *)
(* are then updated once each, in registration order.                       *)
C20_DrainThenTickInOrder ==
    op = "run_main_loop" =>
        /\ trace[1].ev = "poll"
        /\ trace[1].left = 0
        /\ Len(trace) = Len(modules) + 1
        /\ \A i \in 1..Len(modules) :
               /\ trace[i + 1].ev = "update"
               /\ trace[i + 1].name = modules[i].name

(* C21: initialize_network constructs the listener exactly when the radio  *)
(* joined the network; when it did not, the call returns failure, there is *)
(* no listener, and the program registers no module, binds no route,       *)
(* accepts no request and runs no loop iteration.                          *)
C21_ListenerIffNetworkUp ==
    /\ op = "initialize_network" =>
           /\ ret.ok <=> ret.msg = "connected"
           /\ ret.ok <=> server # None
           /\ ret.ok <=> pc # "halt"
    /\ pc \in {"register_module", "start_server", "run_main_loop"} => server # None
    /\ server = None =>
           /\ pc \in {"initialize_network", "halt"}
           /\ modules = <<>> /\ routes = {} /\ pending = <<>> /\ trace = <<>>

C21_Witness ==
    /\ op = "initialize_network"
    /\ ret = [ok |-> FALSE, msg |-> "raise"]
    /\ pc = "halt"
    /\ server = None

(* C22: update() returns normally whatever the transport does: a raising   *)
(* loop(), a raising connect() in the reconnect step, a raising online     *)
(* publish and a raising write of the automatic publish are all caught     *)
(* inside the tick.                                                        *)
C22_UpdateReturnsNormally ==
    op = "update" => ret = [ok |-> TRUE, msg |-> None]

C22_Witness ==
    /\ op = "update"
    /\ ret.ok
    /\ Len(calls) >= 3
    /\ calls[1].call = "loop" /\ ~calls[1].ok
    /\ Acks(calls) = 1
    /\ StatusCalls(calls, "online") # {} /\ StatusWrites(calls, "online") = {}
    /\ SensorWriteFailed(calls)

(* C23: a tick whose automatic publish failed has set the last-publish     *)
(* timestamp to the time of the failed attempt.                            *)
C23_FailedPublishResetsSchedule ==
    (op = "update" /\ SensorWriteFailed(calls)) => mqtt.last_publish = now

(* C24: while every connect fails, the loop keeps ticking and the clock    *)
(* keeps advancing, reconnect attempts are issued again and again without  *)
(* end, and the distance between two successive attempts stays the same:   *)
(* more than 30 s and at most 30 s plus one sleep of the loop, however     *)
(* many attempts have failed.                                              *)
C24_RetryForever ==
    /\ []<>(op = "update" /\ ConnectFailed(calls))
    /\ [](Len(attempt) = 2 =>
              /\ attempt[2] - attempt[1] > ReconnectInterval
              /\ attempt[2] - attempt[1] <= ReconnectInterval + MaxSleep)

C24_Witness ==
    /\ op = "update"
    /\ ConnectFailed(calls)
    /\ Len(attempt) = 2
    /\ ~mqtt.connected
    /\ mqtt.status_message = "Reconnect failed: " \o ConnectErr

(* C25: when connect_mqtt has returned success the session is connected,   *)
(* and a connect acknowledged inside a tick leaves the session connected   *)
(* when the tick returns.                                                  *)
C25_SuccessMeansConnected ==
    /\ (op = "connect_mqtt" /\ ret.ok) => mqtt.connected
    /\ (op \in {"connect_mqtt", "update"} /\ Acks(calls) > 0) => mqtt.connected

C25_Witness ==
    /\ op = "connect_mqtt"
    /\ ret = [ok |-> TRUE, msg |-> "Connection initiated"]
    /\ mqtt.connected
    /\ StatusCalls(calls, "online") # {} /\ StatusWrites(calls, "online") = {}

(* C26: in a tick that finds the session disconnected after the drain step *)
(* with more than 30 s since the reconnect timestamp, exactly one connect  *)
(* is issued and the timestamp becomes the time of the tick, whether the   *)
(* connect is acknowledged or raises; in a tick with 30 s or less since    *)
(* the timestamp, or one that finds the session connected after the drain  *)
(* step, no connect is issued and the timestamp is unchanged.  The session *)
(* is connected after the drain step exactly when it is connected at the   *)
(* end of a tick that issued no connect.                                   *)
C26_ReconnectStep ==
    [][op' = "update" =>
        LET stamp == mqtt.last_reconnect_attempt
            due == mqtt.mqtt_client /\ stamp # NoAttr /\ now - stamp > ReconnectInterval
            connects == Cardinality(Indices(calls', "connect"))
            connectedAfterDrain == mqtt'.connected /\ connects = 0
        IN /\ (~connectedAfterDrain /\ due) =>
                  /\ connects = 1
                  /\ mqtt'.last_reconnect_attempt = now'
           /\ ((stamp # NoAttr /\ ~due) \/ connectedAfterDrain) =>
                  /\ connects = 0
                  /\ mqtt'.last_reconnect_attempt = stamp]_vars

C26_Witness ==
    /\ op = "update"
    /\ ConnectFailed(calls)
    /\ mqtt.last_reconnect_attempt = now
    /\ now = ReconnectInterval + 1
    /\ mqtt.status_message = "Reconnect failed: " \o ConnectErr

(* C27 as stated: a tick calls publish_sensor_data exactly when the        *)
(* session is connected after the drain and reconnect steps and at least   *)
(* the publish interval has passed since last_publish; any other tick      *)
(* writes to no topic.                                                     *)
C27_Original ==
    [][op' = "update" =>
        LET due == mqtt'.connected /\ now' - mqtt.last_publish >= mqtt.publish_interval
        IN /\ SensorCalls(calls') # {} <=> due
           /\ ~due => Indices(calls', "publish") = {}]_vars

(* C27: a tick calls publish_sensor_data exactly when the session is       *)
(* connected after the drain and reconnect steps and at least the publish  *)
(* interval has passed since last_publish; any other tick writes no sensor *)
(* data, and the only write it can make is the one "online" status message *)
(* of a connect acknowledged in that tick.                                 *)
C27_PublishDecision ==
    [][op' = "update" =>
        LET due == mqtt'.connected /\ now' - mqtt.last_publish >= mqtt.publish_interval
        IN /\ SensorCalls(calls') # {} <=> due
           /\ ~due =>
                  /\ Indices(calls', "publish") = StatusCalls(calls', "online")
                  /\ Cardinality(StatusCalls(calls', "online")) = Acks(calls')]_vars

C27_Witness ==
    /\ op = "update"
    /\ Acks(calls) = 1
    /\ StatusWrites(calls, "online") # {}
    /\ SensorCalls(calls) = {}
    /\ mqtt.connected
    /\ now - mqtt.last_publish < mqtt.publish_interval

(* C28: last_publish never decreases, and a tick increases it exactly when *)
(* the automatic publish of that tick made all its writes.                 *)
C28_LastPublishMonotone ==
    [][/\ mqtt'.last_publish >= mqtt.last_publish
       /\ op' = "update" =>
              (mqtt'.last_publish > mqtt.last_publish <=>
                   /\ Cardinality(SensorCalls(calls')) = Len(SensorTopics)
                   /\ ~SensorWriteFailed(calls'))]_vars

C28_Witness ==
    /\ op = "update"
    /\ Cardinality(SensorCalls(calls)) = Len(SensorTopics)
    /\ ~SensorWriteFailed(calls)
    /\ mqtt.last_publish = now
    /\ now = ReconnectInterval

(* C29: when loop() raises in a tick that found the session connected, the *)
(* tick returns normally and went on to the reconnect step; unless that    *)
(* step reconnected, which it does only on an expired timer, the session   *)
(* is disconnected, the last error is the loop failure, and the tick       *)
(* published nothing.                                                      *)
C29_DrainFailureDisconnects ==
    [][(/\ op' = "update"
        /\ mqtt.connected
        /\ calls' # <<>>
        /\ calls'[1].call = "loop"
        /\ ~calls'[1].ok) =>
           /\ ret'.ok
           /\ mqtt'.last_reconnect_attempt # NoAttr
           /\ ~Issued(calls', "connect") =>
                  /\ ~mqtt'.connected
                  /\ mqtt'.last_error = "Connection lost: " \o LoopErr
                  /\ Len(calls') = 1
           /\ Issued(calls', "connect") =>
                  /\ mqtt.last_reconnect_attempt # NoAttr
                  /\ now - mqtt.last_reconnect_attempt > ReconnectInterval]_vars

C29_Witness ==
    /\ op = "update"
    /\ Len(calls) = 1
    /\ calls[1].call = "loop" /\ ~calls[1].ok
    /\ ~mqtt.connected
    /\ mqtt.last_error = "Connection lost: " \o LoopErr
    /\ mqtt.last_reconnect_attempt = now

(* C30: the disconnect callback marks the session disconnected, records    *)
(* the code in the status message and changes no other field; it issues no *)
(* connect.  It runs inside a disconnect() that returned, with code 0, and *)
(* inside loop(), where the reconnect step of the same tick follows it:    *)
(* the status message still names the code when that step did not connect. *)
C30_DisconnectCallbackFrame ==
    [][/\ (op' = "disconnect_mqtt" /\ mqtt.connected /\ ret'.ok) =>
              /\ mqtt' = [mqtt EXCEPT !.connected = FALSE,
                                     !.status_message = "Disconnected (code: 0)"]
              /\ ~Issued(calls', "connect")
       /\ \A rc \in DisconnectCodes :
              (/\ op' = "update"
               /\ mqtt.connected
               /\ mqtt'.status_message = "Disconnected (code: " \o ToString(rc) \o ")") =>
                  /\ ~mqtt'.connected
                  /\ ~Issued(calls', "connect")
                  /\ mqtt'.last_publish = mqtt.last_publish
                  /\ mqtt'.last_error = mqtt.last_error
                  /\ mqtt.last_reconnect_attempt # NoAttr =>
                         mqtt'.last_reconnect_attempt = mqtt.last_reconnect_attempt]_vars

C30_Witness ==
    /\ op = "update"
    /\ mqtt.status_message = "Disconnected (code: 1)"
    /\ ~mqtt.connected
    /\ mqtt.last_reconnect_attempt # NoAttr
    /\ mqtt.last_reconnect_attempt < now
    /\ mqtt.last_publish > 0

(* the update() events of a loop trace *)
Ticks(tr) == {i \in 1..Len(tr) : tr[i].ev = "update"}

EmergencyDefaults(cfg) ==
    /\ cfg.WIFI_SSID = "wicdhub"
    /\ cfg.WIFI_PASSWORD = "pudden789"
    /\ cfg.BLINK_INTERVAL = 10
    /\ cfg.DEBUG_MODE = FALSE

C34_CleanupLeavesDisconnected ==
    [][op' = "cleanup" =>
          /\ ret'.ok
          /\ ~mqtt.connected => calls' = <<>>
          /\ mqtt.connected => (~mqtt'.connected /\ Issued(calls', "disconnect"))]_vars

(* C35: a tick of a session that has no reconnect timestamp yet issues no   *)
(* connect; it creates the timestamp, with the time of the tick, exactly    *)
(* when it leaves the session disconnected.  Until the first automatic      *)
(* attempt no step changes the timestamp, and the first automatic attempt   *)
(* is made by a tick more than 30 s after the timestamp.                    *)
C35_FirstTickOnlyArms ==
    [][LET stamp == mqtt.last_reconnect_attempt
       IN /\ (op' = "update" /\ stamp = NoAttr) =>
                 /\ ~Issued(calls', "connect")
                 /\ attempt' = attempt
                 /\ mqtt'.last_reconnect_attempt =
                        IF mqtt.mqtt_client /\ ~mqtt'.connected THEN now ELSE NoAttr
          /\ (attempt = <<>> /\ stamp # NoAttr) =>
                 IF op' = "update" /\ Issued(calls', "connect")
                 THEN /\ now - stamp > ReconnectInterval
                      /\ attempt' = <<now>>
                 ELSE /\ mqtt'.last_reconnect_attempt = stamp
                      /\ attempt' = <<>>
          /\ (attempt # <<>>) => stamp # NoAttr]_vars

C35_Witness ==
    /\ op = "update"
    /\ Acks(calls) = 1
    /\ mqtt.connected
    /\ attempt = <<now>>
    /\ now = ReconnectInterval + 1

(* a tick whose loop() call ended the connection of a connected session *)
LostInTick ==
    /\ op' = "update"
    /\ mqtt.connected
    /\ calls' # <<>>
    /\ calls'[1].call = "loop"
    /\ (~calls'[1].ok \/ calls'[1].payload = "on_disconnect")

(* C36: when a tick observes the loss of the connection, the reconnect      *)
(* timestamp is the one left by the last attempt or by the arming tick:     *)
(* with more than 30 s since it the same tick issues the connect, right     *)
(* after loop(), and stamps the attempt; with 30 s or less the tick issues  *)
(* no connect and leaves the timestamp as it was.                           *)
C36_LossDoesNotRestartTimer ==
    [][LostInTick =>
          LET stamp == mqtt.last_reconnect_attempt
          IN /\ (stamp # NoAttr /\ now - stamp > ReconnectInterval) =>
                    /\ Indices(calls', "connect") = {2}
                    /\ mqtt'.last_reconnect_attempt = now
             /\ (stamp # NoAttr /\ now - stamp <= ReconnectInterval) =>
                    /\ ~Issued(calls', "connect")
                    /\ ~mqtt'.connected
                    /\ mqtt'.last_reconnect_attempt = stamp]_vars

C36_Witness ==
    /\ op = "update"
    /\ Indices(calls, "connect") = {2}
    /\ calls[1].call = "loop" /\ calls[1].payload = "on_disconnect"
    /\ attempt = <<now>>
    /\ mqtt.last_reconnect_attempt = now
    /\ mqtt.last_publish > 0

(* the session as a completed disconnect_mqtt leaves it *)
AfterDisconnect ==
    /\ ~mqtt.connected
    /\ mqtt.status_message = "Disconnected (code: 0)"

(* C37: a completed disconnect_mqtt leaves a session that still has its     *)
(* client and differs from one that lost its connection in nothing the     *)
(* tick reads.  The ticks that follow treat it as any disconnected         *)
(* session: without a timestamp the tick creates it; with 30 s or less     *)
(* since the timestamp the tick changes nothing; with more than 30 s the   *)
(* tick issues one connect, and when the broker acknowledges it the        *)
(* session is connected and the same tick publishes if a publish is due.   *)
C37_DisconnectNotSticky ==
    [][/\ (op' = "disconnect_mqtt" /\ ret'.ok /\ ret'.msg = "Disconnected") =>
              /\ AfterDisconnect'
              /\ mqtt'.mqtt_client
              /\ mqtt'.last_reconnect_attempt = mqtt.last_reconnect_attempt
       /\ (AfterDisconnect /\ op' = "sleep") => mqtt' = mqtt
       /\ (AfterDisconnect /\ op' = "update") =>
              LET stamp == mqtt.last_reconnect_attempt
                  connects == Cardinality(Indices(calls', "connect"))
              IN /\ stamp = NoAttr =>
                        /\ connects = 0
                        /\ mqtt' = [mqtt EXCEPT !.last_reconnect_attempt = now]
                 /\ (stamp # NoAttr /\ now - stamp <= ReconnectInterval) =>
                        /\ connects = 0
                        /\ mqtt' = mqtt
                 /\ (stamp # NoAttr /\ now - stamp > ReconnectInterval) =>
                        /\ connects = 1
                        /\ mqtt'.last_reconnect_attempt = now
                        /\ Acks(calls') = 1 =>
                               /\ mqtt'.connected
                               /\ now - mqtt.last_publish >= mqtt.publish_interval =>
                                      SensorCalls(calls') # {}]_vars

C37_Witness ==
    /\ op = "disconnect_mqtt"
    /\ ret.msg = "Disconnected"
    /\ AfterDisconnect
    /\ mqtt.last_reconnect_attempt # NoAttr
    /\ now - mqtt.last_reconnect_attempt > ReconnectInterval
    /\ now - mqtt.last_publish >= mqtt.publish_interval

(* C38: only update() writes the reconnect timestamp: connect_mqtt,         *)
(* disconnect_mqtt, a publish and the passing of time leave it as it is.    *)
(* So a tick that follows a failed manual connect within the same clock     *)
(* value, with more than 30 s since the timestamp, issues a connect of its  *)
(* own.                                                                     *)
C38_ManualLeavesTimestamp ==
    [][/\ op' # "update" => mqtt'.last_reconnect_attempt = mqtt.last_reconnect_attempt
       /\ (/\ op = "connect_mqtt"
           /\ ConnectFailed(calls)
           /\ op' = "update"
           /\ mqtt.last_reconnect_attempt # NoAttr
           /\ now - mqtt.last_reconnect_attempt > ReconnectInterval) =>
              /\ now' = now
              /\ Cardinality(Indices(calls', "connect")) = 1
              /\ mqtt'.last_reconnect_attempt = now]_vars

C38_Witness ==
    /\ op = "connect_mqtt"
    /\ ConnectFailed(calls)
    /\ ~ret.ok
    /\ mqtt.status_message = "Connection failed: " \o ConnectErr
    /\ mqtt.last_reconnect_attempt # NoAttr
    /\ now - mqtt.last_reconnect_attempt > ReconnectInterval

(* C39: a session constructed without a transport client is disconnected   *)
(* in every state; no operation on it issues a transport call, no tick     *)
(* creates the reconnect timestamp or publishes, and connect_mqtt returns  *)
(* the failure "MQTT client not initialized".                              *)
C39_NoClientNoTransport ==
    ~mqtt.mqtt_client =>
        /\ ~mqtt.connected
        /\ calls = <<>>
        /\ mqtt.last_reconnect_attempt = NoAttr
        /\ mqtt.last_publish = 0
        /\ auto = <<>> /\ attempt = <<>>
        /\ mqtt.status_message = "MQTT setup failed: " \o SetupErr
        /\ op = "connect_mqtt" => (~ret.ok /\ ret.msg = "MQTT client not initialized")

C39_Witness ==
    /\ ~mqtt.mqtt_client
    /\ op = "update"
    /\ now > ReconnectInterval
    /\ mqtt.last_error = "Not connected to MQTT broker"

(* the sensor writes among the transport calls of an operation, in order *)
SensorWritesOf(cs) ==
    SelectSeq(cs, LAMBDA r : r.call = "publish" /\ r.payload \in {"decimal", "json"})

(* C40: the sensor writes of one operation go to temperature, humidity,    *)
(* battery and status in that order, each topic at most once, and only the *)
(* last write made can have failed.  publish_sensor_data returns success   *)
(* exactly when it made all four writes and none failed; when it returns   *)
(* failure the writes that went through are those before the failing one.  *)
C40_PublishOrderAndPrefix ==
    LET w == SensorWritesOf(calls)
    IN /\ Len(w) <= Len(SensorTopics)
       /\ \A i \in 1..Len(w) :
              /\ w[i].topic = SensorTopics[i]
              /\ i < Len(w) => w[i].ok
       /\ op = "publish_sensor_data" =>
              /\ w = calls
              /\ ret.ok <=> (Len(w) = Len(SensorTopics) /\ w[Len(w)].ok)
              /\ (~ret.ok /\ w # <<>>) => ~w[Len(w)].ok

C40_Witness ==
    /\ op = "publish_sensor_data"
    /\ ~ret.ok
    /\ Len(calls) = 3
    /\ calls[1].topic = "temperature" /\ calls[1].ok
    /\ calls[2].topic = "humidity" /\ calls[2].ok
    /\ calls[3].topic = "battery" /\ ~calls[3].ok
    /\ mqtt.last_error = "Publish failed: " \o PublishErr

============================================================================
